---------------------------- MODULE Spec2Model ----------------------------
(***************************************************************************)
(* A model of the YHandler client library (clokep/YHandler):               *)
(*   - YahooFantasySports.api_req and the OAuth steps it drives            *)
(*     (src/YHandler/base.py), one action per network round trip;          *)
(*   - the envelope decoders of YahooApiData                               *)
(*     (src/YHandler/resources/base.py), as operators applied to inputs    *)
(*     drawn from bounded sets;                                            *)
(*   - the resources built over them (src/YHandler/resources/league.py,    *)
(*     game.py): one action per public operation, given the outcome of     *)
(*     the api_req call it makes.                                          *)
(* Python values are tagged records, so that values of different Python    *)
(* types can be told apart; an evaluation that may raise yields a record   *)
(* [exc, val] with exc = "none" when a value is returned.                  *)
(***************************************************************************)
EXTENDS FiniteSets, Integers, Sequences, TLC

VARIABLES
    authd,      \* YahooFantasySports.authd: credential map (key -> string)
    store,      \* what the credential store (authc) holds on disk
    nwrites,    \* number of write_authvals calls since construction
    pc,         \* position of the caller inside api_req
    req,        \* arguments of the api_req call in progress
    entry,      \* authd as it was when the call in progress was entered
    log,        \* HTTP requests issued by the api_req call in progress
    responses,  \* responses received by _call_api in the call in progress
    raises,     \* exceptions that left api_req in the call in progress
    ret,        \* return value of api_req in the call in progress
    ncalls,     \* number of api_req calls started
    fn,         \* decoder call: the function applied
    arg,        \* decoder call: its argument
    out,        \* decoder call: its outcome ([exc, val]) once applied
    game,       \* _api_dict of a YahooGameResource
    league,     \* _api_dict of a YahooLeagueResource whose parent is the game
    team,       \* _api_dict of a YahooTeamResource whose parent is the league
    player,     \* _api_dict of a YahooPlayerResource whose parent is the league
    op,         \* resource operation invoked: its name and arguments
    answer,     \* what api_req answers to that operation ([exc, val])
    sent,       \* query strings the operation passed to api_req
    res,        \* outcome of the operation ([exc, val]) once it has run
    nops,       \* number of resource operations invoked
    by,         \* the object whose api_req performed each request so far
    format      \* the attribute `format` of the handle, once assigned

vars == <<authd, store, nwrites, pc, req, entry, log, responses, raises,
          ret, ncalls, fn, arg, out, game, league, team, player, op,
          answer, sent, res, nops, by, format>>

apiVars == <<authd, store, nwrites, pc, req, entry, log, responses, raises,
             ret, ncalls>>
decVars == <<fn, arg, out>>
resVars == <<game, league, team, player, op, answer, sent, res, nops, by,
            format>>

----------------------------------------------------------------------------
(* Bounds *)

MaxCalls == 2       \* api_req calls in one behaviour
MaxCount == 3       \* largest `count` of a counted array
MaxIndex == 2       \* indexed keys "0".."MaxIndex" that a counted array may hold
MaxItems == 4       \* longest list given to _unwrap_dict
MaxTeams == 2       \* teams in the answer to get_teams
MaxManagers == 2    \* managers of one team
MaxLeagues == 2     \* leagues of one game in the answer to get_leagues
MaxPlayers == 2     \* players of one roster
MaxOps == 2         \* resource operations invoked in one behaviour

----------------------------------------------------------------------------
(* Python / JSON values *)

JNull    == [t |-> "null"]
JStr(s)  == [t |-> "str", s |-> s]
JInt(i)  == [t |-> "int", i |-> i]
JList(l) == [t |-> "list", l |-> l]
JObj(o)  == [t |-> "obj", o |-> o]
JBool(b) == [t |-> "bool", b |-> b]

EmptyMap == [k \in {} |-> JNull]

Returned(v) == [exc |-> "none", val |-> v]
Raised(e)   == [exc |-> e, val |-> JNull]

\* An evaluation that has not run yet
Pending == [exc |-> "pending", val |-> JNull]

\* v[k] for a string key k: dict lookup raises KeyError on a missing key;
\* a str, list, int or None subscripted by a str raises TypeError.
GetItem(v, k) ==
    IF v.t = "obj"
    THEN IF k \in DOMAIN v.o THEN Returned(v.o[k]) ELSE Raised("KeyError")
    ELSE Raised("TypeError")

\* r[k] where r is itself the outcome of an evaluation that may have raised
Then(r, k) == IF r.exc = "none" THEN GetItem(r.val, k) ELSE r

----------------------------------------------------------------------------
(* API handle: constants of base.py *)

GET_TOKEN_URL     == "https://api.login.yahoo.com/oauth/v2/get_token"
REQUEST_TOKEN_URL == "https://api.login.yahoo.com/oauth/v2/get_request_token"
_base_url         == "https://fantasysports.yahooapis.com/fantasy/v2/"
_format           == "json"
StatusOk          == 200          \* requests.codes['ok']

\* urljoin(base, querystring): the query strings are relative paths and the
\* base ends with '/', so the result is the base followed by the path.
urljoin(base, querystring) == <<base, querystring>>

----------------------------------------------------------------------------
(* The environment: what the caller passes and what the servers answer *)

Statuses == {200, 401, 500}

\* Response bodies: the raw content and what response.json() parses it to
\* (json.t = "invalid" when the content is not valid JSON).
NotJson == [t |-> "invalid"]

Bodies ==
    { [content |-> "<html>",  json |-> NotJson],
      [content |-> "[]",      json |-> JList(<<>>)],
      [content |-> "{}",      json |-> JObj(EmptyMap)],
      [content |-> "{error:denied}",
       json |-> JObj([k \in {"error"} |-> JStr("denied")])],
      [content |-> "{error:{}}",
       json |-> JObj([k \in {"error"} |-> JObj(EmptyMap)])],
      [content |-> "{error:{description:expired}}",
       json |-> JObj([k \in {"error"} |->
                        JObj([d \in {"description"} |-> JStr("expired")])])],
      [content |-> "{fantasy_content:p1}",
       json |-> JObj([k \in {"fantasy_content"} |-> JStr("p1")])],
      [content |-> "{fantasy_content:p2}",
       json |-> JObj([k \in {"fantasy_content"} |-> JStr("p2")])] }

ApiResponses == [status_code : Statuses, body : Bodies]

\* What the token endpoint answers to a successful exchange or refresh
TokenGrants ==
    { [oauth_token |-> "at1", oauth_token_secret |-> "as1",
       oauth_session_handle |-> "sh1"],
      [oauth_token |-> "at2", oauth_token_secret |-> "as2",
       oauth_session_handle |-> "sh2"] }

\* Arguments of api_req (data and headers default to {})
Requests ==
    { [querystring |-> "game/nhl", req_meth |-> "GET",
       data |-> "{}", headers |-> "{}"],
      [querystring |-> "league/l1/teams", req_meth |-> "GET",
       data |-> "{}", headers |-> "{}"],
      [querystring |-> "team/t1/roster", req_meth |-> "PUT",
       data |-> "{roster}", headers |-> "{Content-Type}"] }

NoRequest == [querystring |-> "", req_meth |-> "", data |-> "", headers |-> ""]

\* Credential maps the store can hand to the constructor.  consumer_key and
\* consumer_secret are always there; each of the access token, its secret
\* and the session handle is absent, empty or set.  The three are written
\* together (base.py 72-76, 94-98), so a map that has both access token keys
\* has the session handle key as well.
AccessKeys == {"oauth_access_token", "oauth_access_token_secret",
               "oauth_session_handle"}
CredMap(a, s, h) ==
    [k \in {"consumer_key", "consumer_secret"}
           \cup (IF a = "absent" THEN {} ELSE {"oauth_access_token"})
           \cup (IF s = "absent" THEN {} ELSE {"oauth_access_token_secret"})
           \cup (IF h = "absent" THEN {} ELSE {"oauth_session_handle"})
       |-> CASE k = "consumer_key" -> "ck"
             [] k = "consumer_secret" -> "cs"
             [] k = "oauth_access_token" -> a
             [] k = "oauth_access_token_secret" -> s
             [] k = "oauth_session_handle" -> h]

InitialCreds ==
    { CredMap(a, s, h) :
        <<a, s, h>> \in
          { t \in {"absent", "", "at0"} \X {"absent", "", "as0"}
                    \X {"absent", "", "sh0"} :
              (t[1] # "absent" /\ t[2] # "absent") => t[3] # "absent" } }

\* m with key k set to v (m[k] = v on a Python dict)
SetItem(m, k, v) == [x \in DOMAIN m \cup {k} |-> IF x = k THEN v ELSE m[x]]

\* Python truth value of a str
Truthy(s) == s # ""

----------------------------------------------------------------------------
(* API handle: YahooFantasySports *)

\* The HTTP request an OAuth1Lite-signed call puts on the wire
HttpRequest(kind, url, method, data, headers, auth, params) ==
    [kind |-> kind, url |-> url, method |-> method, data |-> data,
     headers |-> headers, auth |-> auth, params |-> params]

\* An exception leaving api_req
Exception(type, args) == [type |-> type, args |-> args]

\* Variant of NeedsRegistration that looks at the access token only
NeedsRegistration_TokenOnly(d) ==
    \/ "oauth_access_token" \notin DOMAIN d
    \/ ~Truthy(d["oauth_access_token"])

\* api_req, line 130: has authentication not happened yet?
NeedsRegistration(d) ==
    \/ "oauth_access_token" \notin DOMAIN d
    \/ "oauth_access_token_secret" \notin DOMAIN d
    \/ ~(Truthy(d["oauth_access_token"])
           /\ Truthy(d["oauth_access_token_secret"]))

\* _call_api, lines 110-117: the signed request; building the signer reads
\* both access token keys of authd (KeyError when one is missing).
CanSign(d) ==
    {"oauth_access_token", "oauth_access_token_secret"} \subseteq DOMAIN d

_call_api(d, url, req_meth, data, headers) ==
    HttpRequest("api", url, req_meth, data, headers,
                <<d["consumer_key"], d["consumer_secret"],
                  d["oauth_access_token"], d["oauth_access_token_secret"]>>,
                [format |-> _format])

\* response.json()
Json(response) ==
    IF response.body.json.t = "invalid"
    THEN Raised("ValueError")
    ELSE Returned(response.body.json)

\* api_req, lines 146-149: the best-effort error message.  Only ValueError
\* and KeyError are caught; any other exception leaves api_req.
ErrorMessage(response) ==
    LET d == Then(Then(Json(response), "error"), "description")
    IN  IF d.exc = "none" THEN d
        ELSE IF d.exc \in {"ValueError", "KeyError"}
             THEN Returned(JStr(response.body.content))
             ELSE d

\* api_req, lines 144-156: what the call ends with, given the last response:
\* [exc |-> "none", val |-> payload] or the exception raised.
Conclude(response) ==
    IF response.status_code # StatusOk
    THEN LET m == ErrorMessage(response)
         IN  IF m.exc = "none"
             THEN [exc |-> "YahooApiException",
                   val |-> <<response.status_code, m.val>>]
             ELSE [exc |-> m.exc, val |-> <<>>]
    ELSE LET v == Then(Json(response), "fantasy_content")
         IN  IF v.exc = "none" THEN v ELSE [exc |-> v.exc, val |-> <<>>]

\* The call ends with outcome o: a return value, or an exception
Finish(o) ==
    IF o.exc = "none"
    THEN /\ pc' = "returned"
         /\ ret' = o.val
         /\ UNCHANGED raises
    ELSE /\ pc' = "raised"
         /\ raises' = Append(raises, Exception(o.exc, o.val))
         /\ UNCHANGED ret

\* The transport fails: requests raises, nothing in base.py catches it
TransportFailure ==
    /\ pc' = "raised"
    /\ raises' = Append(raises, Exception("ConnectionError", <<>>))
    /\ UNCHANGED ret

\* A caller starts api_req(querystring, req_meth, data, headers), line 130
ApiReq(r) ==
    /\ pc \in {"idle", "returned", "raised"}
    /\ ncalls < MaxCalls
    /\ ncalls' = ncalls + 1
    /\ req' = r
    /\ entry' = authd
    /\ log' = <<>>
    /\ responses' = <<>>
    /\ raises' = <<>>
    /\ ret' = JNull
    /\ pc' = IF NeedsRegistration(authd) THEN "reg_user" ELSE "call_api"
    /\ UNCHANGED <<authd, store, nwrites>>

\* reg_user, lines 44-56: ask for a request token, then the user's PIN
reg_user ==
    /\ pc = "reg_user"
    /\ log' = Append(log,
                HttpRequest("request_token", REQUEST_TOKEN_URL, "POST", "", "",
                            <<authd["consumer_key"], authd["consumer_secret"]>>,
                            [callback |-> "oob"]))
    /\ \/ /\ TransportFailure
          /\ UNCHANGED authd
       \/ \E status \in Statuses \ {StatusOk} :
            /\ pc' = "call_api"
            /\ UNCHANGED <<authd, raises, ret>>
       \/ \E g \in TokenGrants :
            /\ authd' = SetItem(SetItem(SetItem(authd,
                            "oauth_token", g.oauth_token),
                            "oauth_token_secret", g.oauth_token_secret),
                            "oauth_verifier", "pin")
            /\ pc' = "get_login_token"
            /\ UNCHANGED <<raises, ret>>
    /\ UNCHANGED <<store, nwrites, req, entry, responses, ncalls>>

\* Variant of Granted that replaces the access token and leaves its secret
\* and the session handle as they were
Granted_TokenOnly(d, g) == SetItem(d, "oauth_access_token", g.oauth_token)

\* The three credentials a successful exchange or refresh sets, lines 72-74
\* and 94-96
Granted(d, g) ==
    SetItem(SetItem(SetItem(d,
        "oauth_access_token", g.oauth_token),
        "oauth_access_token_secret", g.oauth_token_secret),
        "oauth_session_handle", g.oauth_session_handle)

\* get_login_token, lines 65-77 (called at the end of reg_user)
get_login_token ==
    /\ pc = "get_login_token"
    /\ log' = Append(log,
                HttpRequest("access_token", GET_TOKEN_URL, "POST", "", "",
                            <<authd["consumer_key"], authd["consumer_secret"],
                              authd["oauth_token"],
                              authd["oauth_token_secret"]>>,
                            [oauth_verifier |-> authd["oauth_verifier"]]))
    /\ \/ /\ TransportFailure
          /\ UNCHANGED <<authd, store, nwrites>>
       \/ \E status \in Statuses \ {StatusOk} :
            /\ pc' = "call_api"
            /\ UNCHANGED <<authd, store, nwrites, raises, ret>>
       \/ \E g \in TokenGrants :
            /\ authd' = Granted(authd, g)
            /\ store' = authd'
            /\ nwrites' = nwrites + 1
            /\ pc' = "call_api"
            /\ UNCHANGED <<raises, ret>>
    /\ UNCHANGED <<req, entry, responses, ncalls>>

\* Variant of CallApiFirst that refreshes on an authentication failure (401)
\* only and ends the call on any other status
CallApiFirst_OnlyOn401 ==
    /\ pc = "call_api"
    /\ IF ~CanSign(authd)
       THEN /\ Finish(Raised("KeyError"))
            /\ UNCHANGED <<log, responses>>
       ELSE /\ log' = Append(log,
                        _call_api(authd, urljoin(_base_url, req.querystring),
                                  req.req_meth, req.data, req.headers))
            /\ \/ /\ TransportFailure
                  /\ UNCHANGED responses
               \/ \E response \in ApiResponses :
                    /\ responses' = Append(responses, response)
                    /\ IF response.status_code = 401
                       THEN /\ pc' = "refresh_token"
                            /\ UNCHANGED <<raises, ret>>
                       ELSE Finish(Conclude(response))
    /\ UNCHANGED <<authd, store, nwrites, req, entry, ncalls>>

\* Variant of CallApiFirst that treats a transport failure like a rejected
\* request: it goes on to refresh and retry
CallApiFirst_RetryOnTransport ==
    /\ pc = "call_api"
    /\ IF ~CanSign(authd)
       THEN /\ Finish(Raised("KeyError"))
            /\ UNCHANGED <<log, responses>>
       ELSE /\ log' = Append(log,
                        _call_api(authd, urljoin(_base_url, req.querystring),
                                  req.req_meth, req.data, req.headers))
            /\ \/ /\ pc' = "refresh_token"
                  /\ UNCHANGED <<responses, raises, ret>>
               \/ \E response \in ApiResponses :
                    /\ responses' = Append(responses, response)
                    /\ IF response.status_code # StatusOk
                       THEN /\ pc' = "refresh_token"
                            /\ UNCHANGED <<raises, ret>>
                       ELSE Finish(Conclude(response))
    /\ UNCHANGED <<authd, store, nwrites, req, entry, ncalls>>

\* api_req, lines 133-141: the first signed request, and the decision to
\* refresh and retry
CallApiFirst ==
    /\ pc = "call_api"
    /\ IF ~CanSign(authd)
       THEN /\ Finish(Raised("KeyError"))
            /\ UNCHANGED <<log, responses>>
       ELSE /\ log' = Append(log,
                        _call_api(authd, urljoin(_base_url, req.querystring),
                                  req.req_meth, req.data, req.headers))
            /\ \/ /\ TransportFailure
                  /\ UNCHANGED responses
               \/ \E response \in ApiResponses :
                    /\ responses' = Append(responses, response)
                    /\ IF response.status_code # StatusOk
                       THEN /\ pc' = "refresh_token"
                            /\ UNCHANGED <<raises, ret>>
                       ELSE Finish(Conclude(response))
    /\ UNCHANGED <<authd, store, nwrites, req, entry, ncalls>>

\* refresh_token, lines 87-99; api_req (line 140) ignores what it returns
refresh_token ==
    /\ pc = "refresh_token"
    /\ log' = Append(log,
                HttpRequest("refresh", GET_TOKEN_URL, "POST", "", "",
                            <<authd["consumer_key"], authd["consumer_secret"],
                              authd["oauth_access_token"],
                              authd["oauth_access_token_secret"]>>,
                            [oauth_session_handle |->
                                authd["oauth_session_handle"]]))
    /\ \/ /\ TransportFailure
          /\ UNCHANGED <<authd, store, nwrites>>
       \/ \E status \in Statuses \ {StatusOk} :
            /\ pc' = "retry"
            /\ UNCHANGED <<authd, store, nwrites, raises, ret>>
       \/ \E g \in TokenGrants :
            /\ authd' = Granted(authd, g)
            /\ store' = authd'
            /\ nwrites' = nwrites + 1
            /\ pc' = "retry"
            /\ UNCHANGED <<raises, ret>>
    /\ UNCHANGED <<req, entry, responses, ncalls>>

\* Variant of CallApiRetry that drops the retry's response and concludes
\* from the first one
CallApiRetry_FirstResponse ==
    /\ pc = "retry"
    /\ log' = Append(log,
                _call_api(authd, urljoin(_base_url, req.querystring),
                          req.req_meth, req.data, req.headers))
    /\ \/ /\ TransportFailure
          /\ UNCHANGED responses
       \/ \E response \in ApiResponses :
            /\ responses' = Append(responses, response)
            /\ Finish(Conclude(responses[1]))
    /\ UNCHANGED <<authd, store, nwrites, req, entry, ncalls>>

\* api_req, lines 141-156: the retry, and the end of the call
CallApiRetry ==
    /\ pc = "retry"
    /\ log' = Append(log,
                _call_api(authd, urljoin(_base_url, req.querystring),
                          req.req_meth, req.data, req.headers))
    /\ \/ /\ TransportFailure
          /\ UNCHANGED responses
       \/ \E response \in ApiResponses :
            /\ responses' = Append(responses, response)
            /\ Finish(Conclude(response))
    /\ UNCHANGED <<authd, store, nwrites, req, entry, ncalls>>

\* No operation of a resource has been invoked: a game, one of its leagues,
\* one of the teams and one of the players of that league exist, as built
\* from earlier responses
NoOp == [name |-> "none", args |-> <<>>]

\* An attribute that no statement has assigned yet
Unset == "unset"

NoResourceCall ==
    /\ game = [k \in {"game_key"} |-> JStr("nhl")]
    /\ league = [k \in {"league_key"} |-> JStr("nhl.l.1")]
    /\ team = [k \in {"team_key"} |-> JStr("nhl.l.1.t.1")]
    /\ player = [k \in {"player_key"} |-> JStr("nhl.p.1")]
    /\ op = NoOp
    /\ answer = Pending
    /\ sent = <<>>
    /\ res = Pending
    /\ nops = 0
    /\ by = <<>>
    /\ format = Unset

\* The handle after construction (__init__, line 33): credentials loaded
\* from the store, no call made yet
Init ==
    /\ authd \in InitialCreds
    /\ store = authd
    /\ nwrites = 0
    /\ pc = "idle"
    /\ req = NoRequest
    /\ entry = authd
    /\ log = <<>>
    /\ responses = <<>>
    /\ raises = <<>>
    /\ ret = JNull
    /\ ncalls = 0
    /\ fn = "none"
    /\ arg = JNull
    /\ out = JNull
    /\ NoResourceCall

Next ==
    \/ \E r \in Requests : ApiReq(r) /\ UNCHANGED <<decVars, resVars>>
    \/ reg_user /\ UNCHANGED <<decVars, resVars>>
    \/ get_login_token /\ UNCHANGED <<decVars, resVars>>
    \/ CallApiFirst /\ UNCHANGED <<decVars, resVars>>
    \/ refresh_token /\ UNCHANGED <<decVars, resVars>>
    \/ CallApiRetry /\ UNCHANGED <<decVars, resVars>>

Spec == Init /\ [][Next]_vars

----------------------------------------------------------------------------
(* Envelope decoders: YahooApiData (resources/base.py) *)

Digits == <<"0", "1", "2", "3", "4", "5", "6", "7", "8", "9">>

\* str(i) for an int i >= 0: its decimal digits
RECURSIVE str(_)
str(i) == IF i < 10 THEN Digits[i + 1]
          ELSE str(i \div 10) \o Digits[(i % 10) + 1]

\* range(n) for an int n: 0, 1, ..., n-1 (nothing when n <= 0)
range(n) == [i \in 1..(IF n > 0 THEN n ELSE 0) |-> i - 1]

\* Variant of _unwrap_array that numbers the elements from 1
_unwrap_array_FromOne(data) ==
    LET count == GetItem(data, "count")
    IN  IF count.exc # "none" THEN count
        ELSE IF count.val.t # "int" THEN Raised("TypeError")
        ELSE LET r == range(count.val.i)
             IN  IF \E n \in 1..Len(r) : str(r[n] + 1) \notin DOMAIN data.o
                 THEN Raised("KeyError")
                 ELSE Returned(JList([n \in 1..Len(r) |->
                                         data.o[str(r[n] + 1)]]))

\* Variant of _unwrap_array that leaves out the indexes the map lacks
_unwrap_array_SkipMissing(data) ==
    LET count == GetItem(data, "count")
    IN  IF count.exc # "none" THEN count
        ELSE IF count.val.t # "int" THEN Raised("TypeError")
        ELSE LET r == SelectSeq(range(count.val.i),
                                LAMBDA i : str(i) \in DOMAIN data.o)
             IN  Returned(JList([n \in 1..Len(r) |-> data.o[str(r[n])]]))

\* Variant of _unwrap_array whose loop stops one index early
_unwrap_array_DropLast(data) ==
    LET count == GetItem(data, "count")
    IN  IF count.exc # "none" THEN count
        ELSE IF count.val.t # "int" THEN Raised("TypeError")
        ELSE LET r == range(count.val.i - 1)
             IN  IF \E n \in 1..Len(r) : str(r[n]) \notin DOMAIN data.o
                 THEN Raised("KeyError")
                 ELSE Returned(JList([n \in 1..Len(r) |-> data.o[str(r[n])]]))

\* _unwrap_array, line 32: [data[str(i)] for i in range(data['count'])].
\* data['count'] raises KeyError when the key is missing; range() raises
\* TypeError for anything but an int (a str, None); data[str(i)] raises
\* KeyError for a missing index, and then no list is returned.
_unwrap_array(data) ==
    LET count == GetItem(data, "count")
    IN  IF count.exc # "none" THEN count
        ELSE IF count.val.t # "int" THEN Raised("TypeError")
        ELSE LET r == range(count.val.i)
             IN  IF \E n \in 1..Len(r) : str(r[n]) \notin DOMAIN data.o
                 THEN Raised("KeyError")
                 ELSE Returned(JList([n \in 1..Len(r) |-> data.o[str(r[n])]]))

\* result.update(item) on dicts: the entries of item win
Update(result, item) ==
    [k \in DOMAIN result \cup DOMAIN item |->
        IF k \in DOMAIN item THEN item[k] ELSE result[k]]

\* Variant of _unwrap_dict that stops at the first empty list
RECURSIVE UnwrapDictFrom_StopAtEmpty(_, _, _)
UnwrapDictFrom_StopAtEmpty(result, data, n) ==
    IF n > Len(data) THEN Returned(JObj(result))
    ELSE LET item == data[n]
         IN  IF item = JList(<<>>) THEN Returned(JObj(result))
             ELSE IF item.t # "obj" THEN Raised("AttributeError")
             ELSE UnwrapDictFrom_StopAtEmpty(Update(result, item.o), data,
                                             n + 1)

_unwrap_dict_StopAtEmpty(data) == UnwrapDictFrom_StopAtEmpty(EmptyMap, data.l, 1)

\* The loop of _unwrap_dict, lines 78-85, from the n-th item on: an item
\* equal to [] is skipped; every entry of any other item is stored into
\* result (item.iteritems(), which only a dict has: AttributeError
\* otherwise).
RECURSIVE UnwrapDictFrom(_, _, _)
UnwrapDictFrom(result, data, n) ==
    IF n > Len(data) THEN Returned(JObj(result))
    ELSE LET item == data[n]
         IN  IF item = JList(<<>>) THEN UnwrapDictFrom(result, data, n + 1)
             ELSE IF item.t # "obj" THEN Raised("AttributeError")
             ELSE UnwrapDictFrom(Update(result, item.o), data, n + 1)

\* _unwrap_dict, lines 77-87.  Iterating a dict yields its keys and
\* iterating a str its characters, neither of which has iteritems; a value
\* that cannot be iterated (None, an int, a bool) raises TypeError.
_unwrap_dict(data) ==
    CASE data.t = "list" -> UnwrapDictFrom(EmptyMap, data.l, 1)
      [] data.t = "obj" -> IF DOMAIN data.o = {}
                           THEN Returned(JObj(EmptyMap))
                           ELSE Raised("AttributeError")
      [] data.t = "str" -> IF data.s = ""
                           THEN Returned(JObj(EmptyMap))
                           ELSE Raised("AttributeError")
      [] OTHER -> Raised("TypeError")

\* The outcomes of item[key] for the items of data, in order
ItemLookups(data, key) == [n \in 1..Len(data) |-> GetItem(data[n], key)]

\* Variant of _flatten_array that leaves out the items without the key
_flatten_array_SkipMissing(data, key) ==
    LET has == SelectSeq(data.l, LAMBDA item : GetItem(item, key).exc = "none")
    IN  Returned(JList([n \in 1..Len(has) |-> has[n].o[key]]))

\* _flatten_array, line 52: [item[key] for item in data].  The first item
\* whose lookup raises (KeyError for a dict without the key, TypeError for
\* an item that is not a dict) ends the comprehension with that exception.
_flatten_array(data, key) ==
    LET r == ItemLookups(data.l, key)
        failed == {n \in 1..Len(r) : r[n].exc # "none"}
    IN  IF failed # {}
        THEN Raised(r[CHOOSE n \in failed : \A m \in failed : n <= m].exc)
        ELSE Returned(JList([n \in 1..Len(r) |-> r[n].val]))

\* bool(v)
bool(v) ==
    CASE v.t = "null" -> FALSE
      [] v.t = "bool" -> v.b
      [] v.t = "int"  -> v.i # 0
      [] v.t = "str"  -> v.s # ""
      [] v.t = "list" -> v.l # <<>>
      [] v.t = "obj"  -> DOMAIN v.o # {}
      [] OTHER -> TRUE

\* self._api_dict.get(name, default)
DictGet(api_dict, name, default) ==
    IF name \in DOMAIN api_dict THEN api_dict[name] ELSE default

\* Variant of __getattr__ that answers None for a name it does not hold
__getattr___OrNone(api_dict, attribute) ==
    Returned(DictGet(api_dict, attribute, JNull))

\* YahooApiData.__getattr__, lines 6-10
__getattr__(api_dict, attribute) ==
    IF attribute \notin DOMAIN api_dict
    THEN Raised("AttributeError")
    ELSE Returned(api_dict[attribute])

\* The names each class defines as a property (league.py 6-10, 68-94,
\* 169-179); a property is found before __getattr__ is tried.
Properties(cls) ==
    CASE cls = "YahooManagerResource" -> {"is_current_login"}
      [] cls = "YahooPlayerResource" ->
            {"has_player_notes", "has_recent_player_notes", "status",
             "is_undroppable", "on_disabled_list"}
      [] cls = "YahooLeagueResource" -> {"id", "key", "is_finished"}
      [] OTHER -> {}

\* The value of property `name` of an object of class cls over api_dict
Property(cls, api_dict, name) ==
    CASE name \in {"has_player_notes", "has_recent_player_notes", "status"} ->
            Returned(DictGet(api_dict, name, JNull))
      [] name \in {"is_current_login", "on_disabled_list", "is_finished"} ->
            Returned(JBool(bool(DictGet(api_dict, name, JBool(FALSE)))))
      [] name = "is_undroppable" ->
            IF name \in DOMAIN api_dict
            THEN Returned(JBool(bool(api_dict[name])))
            ELSE Raised("KeyError")
      [] name = "id" ->
            \* self.league_id; when that raises AttributeError, Python
            \* falls back to __getattr__('id')
            IF "league_id" \in DOMAIN api_dict
            THEN Returned(api_dict["league_id"])
            ELSE __getattr__(api_dict, name)
      [] name = "key" ->
            IF "league_key" \in DOMAIN api_dict
            THEN Returned(api_dict["league_key"])
            ELSE __getattr__(api_dict, name)

\* obj.<attribute> for an object of class cls whose _api_dict is api_dict
getattr(cls, api_dict, attribute) ==
    IF attribute \in Properties(cls)
    THEN Property(cls, api_dict, attribute)
    ELSE __getattr__(api_dict, attribute)

----------------------------------------------------------------------------
(* Inputs of the decoders *)

Elems == {JStr("obj1"), JStr("obj2")}

\* A map that may lack any of its keys: `absent` marks a key left out
Absent == [t |-> "absent"]
MapOf(f) == [k \in {x \in DOMAIN f : f[x] # Absent} |-> f[k]]

\* Maps given to _unwrap_array: `count` missing, an int, a numeric string
\* (as on the wire), a non-numeric string or null; each index "0".."MaxIndex"
\* and one foreign key present or not
CountValues ==
    {Absent, JNull, JStr("two")}
        \cup {JInt(n) : n \in (-1)..MaxCount}
        \cup {JStr(str(n)) : n \in 0..MaxCount}

IndexKeys == {str(i) : i \in 0..MaxIndex}

CountedArrays ==
    { JObj(MapOf([k \in IndexKeys \cup {"count", "position"} |->
                    IF k = "count" THEN c
                    ELSE IF k = "position" THEN x
                    ELSE e[k]])) :
        c \in CountValues, x \in {Absent, JStr("C")},
        e \in [IndexKeys -> Elems \cup {Absent}] }

\* Lists given to _unwrap_dict: empty lists, single-entry maps, and items
\* of other shapes (an empty map, a two-entry map, a non-empty list)
DictKeys == {"a", "b"}
DictVals == {JInt(1), JInt(2), JInt(3)}

SingleEntryMaps == { JObj([x \in {k} |-> v]) : k \in DictKeys, v \in DictVals }

DictItems ==
    {JList(<<>>)} \cup SingleEntryMaps
        \cup { JObj(EmptyMap),
               JObj([x \in DictKeys |-> JInt(1)]),
               JList(<<JStr("obj1")>>) }

SeqsUpTo(S, n) == UNION { [1..m -> S] : m \in 0..n }

KeyedArrays == { JList(l) : l \in SeqsUpTo(DictItems, MaxItems) }

\* Lists given to _flatten_array, and the field asked for
FlatItems ==
    { JObj([x \in {"position"} |-> JStr("C")]),
      JObj([x \in {"position"} |-> JStr("LW")]),
      JObj([x \in {"name"} |-> JStr("Center")]),
      JObj([x \in {"position", "name"} |->
              IF x = "position" THEN JStr("C") ELSE JStr("Center")]),
      JStr("C") }

FlatArrays ==
    [data : { JList(l) : l \in SeqsUpTo(FlatItems, MaxItems) },
     key : {"position", "name"}]

\* Objects whose attributes are read: their class, their _api_dict and the
\* attribute asked for
Classes == {"YahooManagerResource", "YahooPlayerResource",
            "YahooLeagueResource", "YahooGamePositionType"}

FieldNames == {"name", "status", "is_undroppable", "is_finished",
               "is_current_login", "league_id"}

AttributeReads ==
    [cls : Classes,
     api_dict : { MapOf(f) :
                    f \in [FieldNames -> {Absent, JStr("1"), JInt(0)}] },
     attribute : FieldNames \cup {"id", "has_player_notes", "on_disabled_list"}]

\* A caller applies _unwrap_array to its argument
UnwrapArray ==
    /\ fn = "_unwrap_array"
    /\ out = Pending
    /\ out' = _unwrap_array(arg)
    /\ UNCHANGED <<fn, arg>>

\* A caller applies _unwrap_dict to its argument
UnwrapDict ==
    /\ fn = "_unwrap_dict"
    /\ out = Pending
    /\ out' = _unwrap_dict(arg)
    /\ UNCHANGED <<fn, arg>>

\* A caller applies _flatten_array to a list and a field name
FlattenArray ==
    /\ fn = "_flatten_array"
    /\ out = Pending
    /\ out' = _flatten_array(arg.data, arg.key)
    /\ UNCHANGED <<fn, arg>>

\* A caller reads an attribute of an object
GetAttr ==
    /\ fn = "getattr"
    /\ out = Pending
    /\ out' = getattr(arg.cls, arg.api_dict, arg.attribute)
    /\ UNCHANGED <<fn, arg>>

InitDecode ==
    /\ authd = CredMap("at0", "as0", "sh0")
    /\ store = authd
    /\ nwrites = 0
    /\ pc = "idle"
    /\ req = NoRequest
    /\ entry = authd
    /\ log = <<>>
    /\ responses = <<>>
    /\ raises = <<>>
    /\ ret = JNull
    /\ ncalls = 0
    /\ out = Pending
    /\ NoResourceCall
    /\ \/ fn = "_unwrap_array" /\ arg \in CountedArrays
       \/ fn = "_unwrap_dict" /\ arg \in KeyedArrays
       \/ fn = "_flatten_array" /\ arg \in FlatArrays
       \/ fn = "getattr" /\ arg \in AttributeReads

NextDecode ==
    \/ UnwrapArray /\ UNCHANGED <<apiVars, resVars>>
    \/ UnwrapDict /\ UNCHANGED <<apiVars, resVars>>
    \/ FlattenArray /\ UNCHANGED <<apiVars, resVars>>
    \/ GetAttr /\ UNCHANGED <<apiVars, resVars>>

SpecDecode == InitDecode /\ [][NextDecode]_vars

----------------------------------------------------------------------------
(* Resources: resources/league.py, resources/game.py *)

\* v[i] for an int i >= 0: a list gives its element or IndexError, a dict
\* (whose keys are all str) KeyError, None, an int or a bool TypeError
GetIndex(v, i) ==
    CASE v.t = "list" -> IF i < Len(v.l) THEN Returned(v.l[i + 1])
                         ELSE Raised("IndexError")
      [] v.t = "obj" -> Raised("KeyError")
      [] v.t \in {"null", "int", "bool"} -> Raised("TypeError")

\* One subscript of a chain such as data['league'][1]['teams']
Key(k) == [k |-> k]
Idx(i) == [i |-> i]

\* r[s1][s2]...[sn], stopping at the first subscript that raises
RECURSIVE Nav(_, _)
Nav(r, steps) ==
    IF r.exc # "none" \/ steps = <<>> THEN r
    ELSE Nav(IF "k" \in DOMAIN Head(steps)
             THEN GetItem(r.val, Head(steps).k)
             ELSE GetIndex(r.val, Head(steps).i),
             Tail(steps))

\* A resource object: its class, its _api_dict and the object its _parent
\* refers to (YahooApiData objects have no parent)
Resource(cls, api_dict, parent) ==
    [t |-> "res", cls |-> cls, o |-> api_dict, parent |-> parent]

NoParent == "none"

\* [f(x) for x in xs], given the outcomes rs of f on the items in order:
\* the list of the values, or the first exception raised
Collect(rs) ==
    LET failed == {n \in 1..Len(rs) : rs[n].exc # "none"}
    IN  IF failed # {}
        THEN Raised(rs[CHOOSE n \in failed : \A m \in failed : n <= m].exc)
        ELSE Returned(JList([n \in 1..Len(rs) |-> rs[n].val]))

\* f(r.val) when r returned, r itself when it raised
Bind(r, f(_)) == IF r.exc = "none" THEN f(r.val) ELSE r

\* What an operation leaves behind: the query strings it passed to api_req,
\* its outcome and the _api_dict of the object it was called on
Done(paths, outcome, self) == [sent |-> paths, res |-> outcome, self |-> self]

\* '<kind>/{0}/{1}'.format(self.<kind>_key, sub_resource), the argument of
\* api_req in YahooLeagueResource.api_req (181-184), YahooTeamResource
\* .api_req (114-117) and YahooPlayerResource.api_req (50-53); the key is
\* read through __getattr__
ResourcePath(kind, self, sub_resource) ==
    LET k == __getattr__(self, kind \o "_key")
    IN  IF k.exc # "none" THEN k
        ELSE Returned(kind \o "/" \o k.val.s \o "/" \o sub_resource)

\* YahooManagerResource(m['manager'], parent)
YahooManagerResource(m, parent) ==
    Bind(GetItem(m, "manager"),
         LAMBDA d : Returned(Resource("YahooManagerResource", d.o, parent)))

\* YahooTeamResource.__init__, lines 107-112: api_dict['managers'] becomes
\* the list of the manager objects
YahooTeamResource(api_dict, parent) ==
    LET managers == GetItem(api_dict, "managers")
    IN  IF managers.exc # "none" THEN managers
        ELSE LET built == Collect([n \in 1..Len(managers.val.l) |->
                                     YahooManagerResource(managers.val.l[n],
                                                          "team")])
             IN  IF built.exc # "none" THEN built
                 ELSE Returned(Resource("YahooTeamResource",
                                        Update(api_dict.o,
                                               [k \in {"managers"} |-> built.val]),
                                        parent))

\* YahooTeamResource.is_current_login, lines 119-122:
\* any([m.is_current_login for m in self.managers])
TeamIsCurrentLogin(api_dict) ==
    LET managers == __getattr__(api_dict, "managers")
    IN  IF managers.exc # "none" THEN managers
        ELSE Returned(JBool(\E n \in 1..Len(managers.val.l) :
                  getattr("YahooManagerResource", managers.val.l[n].o,
                          "is_current_login").val.b))

\* The loop of YahooPlayerResource.__init__, lines 36-40, from the n-th item
\* on: a list item merges _unwrap_dict(api_dict[0]), a dict item is merged
\* as it is, anything else is passed over
RECURSIVE PlayerItemsFrom(_, _, _)
PlayerItemsFrom(_api_dict, api_dict, n) ==
    IF n > Len(api_dict) THEN Returned(JObj(_api_dict))
    ELSE LET item == api_dict[n]
         IN  CASE item.t = "list" ->
                    LET u == _unwrap_dict(api_dict[1])
                    IN  IF u.exc # "none" THEN u
                        ELSE PlayerItemsFrom(Update(_api_dict, u.val.o),
                                             api_dict, n + 1)
               [] item.t = "obj" ->
                    PlayerItemsFrom(Update(_api_dict, item.o), api_dict, n + 1)
               [] OTHER -> PlayerItemsFrom(_api_dict, api_dict, n + 1)

\* Variant of the constructor that keeps the merged fields as they came
YahooPlayerResource_Raw(api_dict, parent) ==
    LET merged == PlayerItemsFrom(EmptyMap, api_dict.l, 1)
    IN  IF merged.exc # "none" THEN merged
        ELSE Returned(Resource("YahooPlayerResource", merged.val.o, parent))

\* YahooPlayerResource.__init__, lines 33-48
YahooPlayerResource(api_dict, parent) ==
    LET merged == PlayerItemsFrom(EmptyMap, api_dict.l, 1)
    IN  IF merged.exc # "none" THEN merged
        ELSE
        LET eligible == Bind(GetItem(merged.val, "eligible_positions"),
                             LAMBDA v : _flatten_array(v, "position"))
        IN  IF eligible.exc # "none" THEN eligible
            ELSE
            LET selected == Bind(GetItem(merged.val, "selected_position"),
                                 LAMBDA v : _unwrap_dict(v))
            IN  IF selected.exc # "none" THEN selected
                ELSE Returned(Resource("YahooPlayerResource",
                         Update(merged.val.o,
                                [k \in {"eligible_positions",
                                        "selected_position"} |->
                                   IF k = "eligible_positions"
                                   THEN eligible.val ELSE selected.val]),
                         parent))

\* [YahooPlayerResource(p['player'], parent) for p in
\*  self._unwrap_array(players)], league.py 101, 198, 217
PlayersOf(players, parent) ==
    Bind(_unwrap_array(players),
         LAMBDA ps : Collect([n \in 1..Len(ps.l) |->
                        Bind(GetItem(ps.l[n], "player"),
                             LAMBDA p : YahooPlayerResource(p, parent))]))

\* YahooRosterResource.__init__, lines 98-103: api_dict.pop('0')['players']
\* is decoded and the players are stored under 'players'
YahooRosterResource(api_dict, parent) ==
    LET built == Bind(Then(GetItem(api_dict, "0"), "players"),
                      LAMBDA ps : PlayersOf(ps, "roster"))
    IN  IF built.exc # "none" THEN built
        ELSE Returned(Resource("YahooRosterResource",
                 [k \in (DOMAIN api_dict.o \ {"0"}) \cup {"players"} |->
                     IF k = "players" THEN built.val ELSE api_dict.o[k]],
                 parent))

\* YahooLeagueStatCategory.__init__, lines 156-161: stat_position_types is
\* flattened twice
YahooLeagueStatCategory(api_dict) ==
    LET types == Bind(Bind(GetItem(api_dict, "stat_position_types"),
                           LAMBDA v : _flatten_array(v, "stat_position_type")),
                      LAMBDA v : _flatten_array(v, "position_type"))
    IN  IF types.exc # "none" THEN types
        ELSE Returned(Resource("YahooLeagueStatCategory",
                 Update(api_dict.o,
                        [k \in {"stat_position_types"} |-> types.val]),
                 NoParent))

\* YahooLeagueRosterPosition(p) (YahooApiData.__init__, base.py 3-4)
YahooLeagueRosterPosition(api_dict) ==
    Resource("YahooLeagueRosterPosition", api_dict.o, NoParent)

\* YahooLeagueResource(league['league'][0], parent)
YahooLeagueResource(api_dict, parent) ==
    Resource("YahooLeagueResource", api_dict.o, parent)

\* An operation that asks api_req for a sub-resource of the object and
\* decodes the answer, `decoded` being what the decoding of reply.val
\* gives: nothing is requested when the path cannot be built, and an
\* exception of api_req leaves the operation as it is
Fetch(path, reply, self, decoded) ==
    IF path.exc # "none" THEN Done(<<>>, path, self)
    ELSE IF reply.exc # "none" THEN Done(<<path.val>>, reply, self)
    ELSE Done(<<path.val>>, decoded, self)

\* The loop of get_teams, lines 229-231
TeamsOf(d) ==
    Bind(Bind(Nav(Returned(d), <<Key("league"), Idx(1), Key("teams")>>),
              _unwrap_array),
         LAMBDA ts : Collect([n \in 1..Len(ts.l) |->
            Bind(Bind(Nav(Returned(ts.l[n]), <<Key("team"), Idx(0)>>),
                      _unwrap_dict),
                 LAMBDA t : YahooTeamResource(t, "league"))]))

\* YahooLeagueResource.get_teams, lines 220-232
get_teams(self, reply) ==
    Fetch(ResourcePath("league", self, "teams"), reply, self,
          TeamsOf(reply.val))

\* The teams whose is_current_login is true, as indexes into teams
CurrentLoginTeams(teams) ==
    {n \in 1..Len(teams) : TeamIsCurrentLogin(teams[n].o).val.b}

\* Variant of get_team that returns the last team of the current login
get_team_Last(self, reply) ==
    LET r == get_teams(self, reply)
    IN  IF r.res.exc # "none" THEN r
        ELSE LET teams == r.res.val.l
                 found == CurrentLoginTeams(teams)
             IN  IF found = {} THEN Done(r.sent, Returned(JNull), self)
                 ELSE Done(r.sent,
                           Returned(teams[CHOOSE n \in found :
                                             \A m \in found : m <= n]),
                           self)

\* YahooLeagueResource.get_team, lines 234-240: the first team of get_teams
\* whose is_current_login is true; the loop ends without a return statement
\* when there is none, and the call then evaluates to None
get_team(self, reply) ==
    LET r == get_teams(self, reply)
    IN  IF r.res.exc # "none" THEN r
        ELSE LET teams == r.res.val.l
                 found == CurrentLoginTeams(teams)
             IN  IF found = {} THEN Done(r.sent, Returned(JNull), self)
                 ELSE Done(r.sent,
                           Returned(teams[CHOOSE n \in found :
                                             \A m \in found : n <= m]),
                           self)

\* YahooLeagueResource.scoreboard, lines 186-192
scoreboard(self, reply) ==
    Fetch(ResourcePath("league", self, "scoreboard"), reply, self,
          Bind(Nav(reply, <<Key("league"), Idx(1), Key("scoreboard"),
                            Key("matchups")>>),
               _unwrap_array))

\* The decoding shared by get_players (196-199) and find_player (214-218)
LeaguePlayers(d) ==
    Bind(Nav(Returned(d), <<Key("league"), Idx(1), Key("players")>>),
         LAMBDA ps : PlayersOf(ps, "league"))

\* YahooLeagueResource.get_players, lines 194-199
get_players(self, reply) ==
    Fetch(ResourcePath("league", self, "players"), reply, self,
          LeaguePlayers(reply.val))

\* urllib.quote_plus(name), a name being modelled as the sequence of its
\* characters: letters, digits and '_.-' are kept, a space becomes '+', any
\* other character its %XX escape
RECURSIVE quote_plus(_)
quote_plus(name) ==
    IF name = <<>> THEN ""
    ELSE (CASE Head(name) = " " -> "+"
            [] Head(name) = "'" -> "%27"
            [] Head(name) = "/" -> "%2F"
            [] OTHER -> Head(name)) \o quote_plus(Tail(name))

\* YahooLeagueResource.find_player, lines 201-218
find_player(self, name, reply) ==
    Fetch(ResourcePath("league", self,
                       "players;search=" \o quote_plus(name)),
          reply, self, LeaguePlayers(reply.val))

\* The decoding of get_settings, lines 244-250, up to the update
DecodedSettings(d) ==
    LET settings == Nav(Returned(d), <<Key("league"), Idx(1),
                                       Key("settings"), Idx(0)>>)
        positions ==
            Bind(Bind(Then(settings, "roster_positions"),
                      LAMBDA v : _flatten_array(v, "roster_position")),
                 LAMBDA ps : Returned(JList([n \in 1..Len(ps.l) |->
                                YahooLeagueRosterPosition(ps.l[n])])))
        categories ==
            Bind(Bind(Then(Then(settings, "stat_categories"), "stats"),
                      LAMBDA v : _flatten_array(v, "stat")),
                 LAMBDA cs : Collect([n \in 1..Len(cs.l) |->
                                YahooLeagueStatCategory(cs.l[n])]))
    IN  IF positions.exc # "none" THEN positions
        ELSE IF categories.exc # "none" THEN categories
        ELSE Returned(JObj(Update(settings.val.o,
                 [k \in {"roster_positions", "stat_categories"} |->
                    IF k = "roster_positions"
                    THEN positions.val ELSE categories.val])))

\* Variant of get_settings in which the fields the league holds are kept
get_settings_KeepOld(self, reply) ==
    LET path == ResourcePath("league", self, "settings")
    IN  IF path.exc # "none" THEN Done(<<>>, path, self)
        ELSE IF reply.exc # "none" THEN Done(<<path.val>>, reply, self)
        ELSE LET settings == DecodedSettings(reply.val)
             IN  IF settings.exc # "none"
                 THEN Done(<<path.val>>, settings, self)
                 ELSE Done(<<path.val>>, Returned(JNull),
                           Update(settings.val.o, self))

\* Variant of get_settings that merges the settings before decoding them
get_settings_UpdateFirst(self, reply) ==
    LET path == ResourcePath("league", self, "settings")
    IN  IF path.exc # "none" THEN Done(<<>>, path, self)
        ELSE IF reply.exc # "none" THEN Done(<<path.val>>, reply, self)
        ELSE LET raw == Nav(reply, <<Key("league"), Idx(1),
                                     Key("settings"), Idx(0)>>)
                 settings == DecodedSettings(reply.val)
             IN  IF raw.exc # "none" THEN Done(<<path.val>>, raw, self)
                 ELSE IF settings.exc # "none"
                 THEN Done(<<path.val>>, settings, Update(self, raw.val.o))
                 ELSE Done(<<path.val>>, Returned(JNull),
                           Update(self, settings.val.o))

\* YahooLeagueResource.get_settings, lines 242-253: the decoded settings are
\* merged into self._api_dict by the last statement; nothing is returned
get_settings(self, reply) ==
    LET path == ResourcePath("league", self, "settings")
    IN  IF path.exc # "none" THEN Done(<<>>, path, self)
        ELSE IF reply.exc # "none" THEN Done(<<path.val>>, reply, self)
        ELSE LET settings == DecodedSettings(reply.val)
             IN  IF settings.exc # "none"
                 THEN Done(<<path.val>>, settings, self)
                 ELSE Done(<<path.val>>, Returned(JNull),
                           Update(self, settings.val.o))

\* A datetime.date
Date(y, m, d) == [t |-> "date", year |-> y, month |-> m, day |-> d]

\* date.strftime('%Y-%m-%d'): four-digit year, two-digit month and day
strftime(date) ==
    str(date.year) \o "-"
        \o (IF date.month < 10 THEN "0" ELSE "") \o str(date.month) \o "-"
        \o (IF date.day < 10 THEN "0" ELSE "") \o str(date.day)

\* ';week=' + week: str + str, TypeError for any other operand
PlusWeek(resource, week) ==
    IF week.t = "str" THEN Returned(resource \o ";week=" \o week.s)
    ELSE Raised("TypeError")

\* Variant of RosterResource that appends the date after the week
RosterResource_Both(week, date) ==
    LET first == IF bool(week) THEN PlusWeek("roster", week)
                 ELSE Returned("roster")
    IN  IF first.exc # "none" THEN first
        ELSE IF bool(date)
             THEN Returned(first.val \o ";date=" \o strftime(date))
             ELSE first

\* The resource string of get_roster, lines 131-135
RosterResource(week, date) ==
    IF bool(week) THEN PlusWeek("roster", week)
    ELSE IF bool(date)
         THEN IF date.t = "date"
              THEN Returned("roster;date=" \o strftime(date))
              ELSE Raised("AttributeError")
         ELSE Returned("roster")

\* YahooTeamResource.get_roster, lines 124-137
get_roster(self, week, date, reply) ==
    Fetch(Bind(RosterResource(week, date),
               LAMBDA resource : ResourcePath("team", self, resource)),
          reply, self,
          Bind(Nav(reply, <<Key("team"), Idx(1), Key("roster")>>),
               LAMBDA r : YahooRosterResource(r, "team")))

\* The clean-up of get_stats, lines 61-66
PlayerStats(d) ==
    LET stats == Nav(Returned(d), <<Key("player"), Idx(1),
                                    Key("player_stats")>>)
        result == Then(stats, "0")
        values == Bind(Then(stats, "stats"),
                       LAMBDA v : _flatten_array(v, "stat"))
    IN  IF result.exc # "none" THEN result
        ELSE IF values.exc # "none" THEN values
        ELSE IF result.val.t # "obj" THEN Raised("TypeError")
        ELSE Returned(JObj(Update(result.val.o,
                                  [k \in {"stats"} |-> values.val])))

\* YahooPlayerResource.get_stats, lines 55-66
get_stats(self, week, reply) ==
    Fetch(Bind(IF bool(week) THEN PlusWeek("stats", week)
               ELSE Returned("stats"),
               LAMBDA resource : ResourcePath("player", self, resource)),
          reply, self, PlayerStats(reply.val))

\* The leagues of one game of the answer, game.py 181-182
LeaguesOfGame(g) ==
    Bind(Bind(Nav(Returned(g), <<Key("game"), Idx(1), Key("leagues")>>),
              _unwrap_array),
         LAMBDA ls : Collect([n \in 1..Len(ls.l) |->
            Bind(Nav(Returned(ls.l[n]), <<Key("league"), Idx(0)>>),
                 LAMBDA l : Returned(YahooLeagueResource(l, "game")))]))

\* The concatenation of a list of lists
RECURSIVE Chain(_)
Chain(ls) == IF ls = <<>> THEN <<>> ELSE Head(ls).l \o Chain(Tail(ls))

Flat(r) == Bind(r, LAMBDA v : Returned(JList(Chain(v.l))))

\* The leagues of one user of the answer, game.py 180
LeaguesOfUser(u) ==
    Flat(Bind(Bind(Nav(Returned(u), <<Key("user"), Idx(1), Key("games")>>),
                   _unwrap_array),
              LAMBDA gs : Collect([n \in 1..Len(gs.l) |->
                                      LeaguesOfGame(gs.l[n])])))

\* Variant of LeaguesKept that keeps the finished leagues
LeaguesKept_All(active_only, leagues) == JList(leagues.l)

\* game.py 186-189: a league is passed over when active_only and
\* league.is_finished
LeaguesKept(active_only, leagues) ==
    JList(SelectSeq(leagues.l,
        LAMBDA l : ~(bool(active_only)
                     /\ getattr("YahooLeagueResource", l.o,
                                "is_finished").val.b)))

\* YahooGameResource.get_leagues, lines 156-189
get_leagues(self, active_only, reply) ==
    LET k == __getattr__(self, "game_key")
    IN  Fetch(IF k.exc # "none" THEN k
              ELSE Returned("users;use_login=1/games;game_key=" \o k.val.s
                                \o "/leagues"),
              reply, self,
              Bind(Flat(Bind(Bind(Then(reply, "users"), _unwrap_array),
                             LAMBDA us : Collect([n \in 1..Len(us.l) |->
                                             LeaguesOfUser(us.l[n])]))),
                   LAMBDA ls : Returned(LeaguesKept(active_only, ls))))

\* int(v) for a str of decimal digits or an int, as in the comprehension
\* of game.py 39: a str that is no number raises ValueError, a value that
\* is neither TypeError
MaxStatId == 9

int(v) ==
    CASE v.t = "int" -> Returned(v)
      [] v.t = "str" ->
            IF \E n \in 0..MaxStatId : str(n) = v.s
            THEN Returned(JInt(CHOOSE n \in 0..MaxStatId : str(n) = v.s))
            ELSE Raised("ValueError")
      [] OTHER -> Raised("TypeError")

\* YahooGameStat.__init__, game.py 29-45: position_types becomes the list
\* of the type codes and base_stats the list of the stat ids as ints, each
\* [] when the stat has none
YahooGameStat(api_dict) ==
    LET position_types ==
            IF "position_types" \in DOMAIN api_dict.o
            THEN _flatten_array(api_dict.o["position_types"], "position_type")
            ELSE Returned(JList(<<>>))
        base_stats ==
            IF "base_stats" \in DOMAIN api_dict.o
            THEN Bind(Bind(_flatten_array(api_dict.o["base_stats"], "base_stat"),
                           LAMBDA bs : _flatten_array(bs, "stat_id")),
                      LAMBDA ids : Collect([n \in 1..Len(ids.l) |->
                                              int(ids.l[n])]))
            ELSE Returned(JList(<<>>))
    IN  IF position_types.exc # "none" THEN position_types
        ELSE IF base_stats.exc # "none" THEN base_stats
        ELSE Returned(Resource("YahooGameStat",
                 Update(api_dict.o,
                        [k \in {"position_types", "base_stats"} |->
                            IF k = "position_types" THEN position_types.val
                            ELSE base_stats.val]),
                 NoParent))

\* cls(api_dict) for the classes of game.py that wrap one item of a
\* sub-collection: only YahooGameStat has a constructor of its own
YahooApiData(cls, api_dict) ==
    IF cls = "YahooGameStat" THEN YahooGameStat(api_dict)
    ELSE Returned(Resource(cls, api_dict.o, NoParent))

\* for item in items: obj = cls(item[wrapper]); table[obj.<field>] = obj
\* (game.py 137-140, 145-147, 152-154), from the n-th item on
RECURSIVE TableFrom(_, _, _, _, _, _)
TableFrom(table, items, n, wrapper, cls, field) ==
    IF n > Len(items) THEN Returned([t |-> "dict", d |-> table])
    ELSE LET obj == Bind(GetItem(items[n], wrapper),
                         LAMBDA d : YahooApiData(cls, d))
             k == Bind(obj, LAMBDA v : __getattr__(v.o, field))
         IN  IF k.exc # "none" THEN k
             ELSE TableFrom(Update(table, [x \in {k.val} |-> obj.val]),
                            items, n + 1, wrapper, cls, field)

\* The four sub-collections in the order __init__ fetches them (game.py
\* 108-119)
SubCollections ==
    <<"game_weeks", "stat_categories", "position_types", "roster_positions">>

\* _get_game_weeks, game.py 121-126
GameWeeksOf(d) ==
    Bind(Bind(Bind(Nav(Returned(d),
                       <<Key("game"), Idx(1), Key("game_weeks")>>),
                   _unwrap_array),
              LAMBDA a : _flatten_array(a, "game_week")),
         LAMBDA weeks : Returned(JList([n \in 1..Len(weeks.l) |->
                           Resource("YahooGameWeek", weeks.l[n].o, NoParent)])))

\* _get_stat_categories, game.py 128-140
StatCategoriesOf(d) ==
    Bind(Nav(Returned(d), <<Key("game"), Idx(1), Key("stat_categories"),
                            Key("stats")>>),
         LAMBDA stats : TableFrom(EmptyMap, stats.l, 1, "stat",
                                  "YahooGameStat", "stat_id"))

\* _get_position_types, game.py 142-147
PositionTypesOf(d) ==
    Bind(Nav(Returned(d), <<Key("game"), Idx(1), Key("position_types")>>),
         LAMBDA types : TableFrom(EmptyMap, types.l, 1, "position_type",
                                  "YahooGamePositionType", "type"))

\* _get_roster_positions, game.py 149-154
RosterPositionsOf(d) ==
    Bind(Nav(Returned(d), <<Key("game"), Idx(1), Key("roster_positions")>>),
         LAMBDA positions : TableFrom(EmptyMap, positions.l, 1,
                                      "roster_position",
                                      "YahooGameRosterPosition", "position"))

\* Variant of SubCollectionOf that leaves a collection empty when its
\* answer cannot be decoded
SubCollectionOf_Lenient(n, d) ==
    LET decoded == CASE n = 1 -> GameWeeksOf(d)
                     [] n = 2 -> StatCategoriesOf(d)
                     [] n = 3 -> PositionTypesOf(d)
                     [] n = 4 -> RosterPositionsOf(d)
    IN  IF decoded.exc # "none"
        THEN Returned(IF n = 1 THEN JList(<<>>)
                      ELSE [t |-> "dict", d |-> EmptyMap])
        ELSE decoded

\* What the n-th sub-collection request gives the game under construction
SubCollectionOf(n, d) ==
    CASE n = 1 -> GameWeeksOf(d)
      [] n = 2 -> StatCategoriesOf(d)
      [] n = 3 -> PositionTypesOf(d)
      [] n = 4 -> RosterPositionsOf(d)

\* get_game, base.py 158-162: data['game'][0] of the answer to 'game/<key>'
GameOf(reply) == Nav(reply, <<Key("game"), Idx(0)>>)

\* The YahooGameResource whose constructor has run to its end: its
\* _api_dict, its parent and the four attributes __init__ assigns
YahooGameResource(api_dict, parent, collections) ==
    [t |-> "res", cls |-> "YahooGameResource", o |-> api_dict.o,
     parent |-> parent,
     game_weeks |-> collections[1], stat_categories |-> collections[2],
     position_types |-> collections[3], roster_positions |-> collections[4]]

\* The statements shared by query_player (YQuery.py 158-162), find_player
\* (196-200) and query_league (220-223) of the game object `self`, given
\* the value old of the handle's attribute `format`:
\*     save_format = self.yhandler.format
\*     self.yhandler.format = self.query_format
\*     resp = self.yhandler.api_req(path)
\*     self.yhandler.format = save_format
\* Reading an attribute that was never assigned raises AttributeError, and
\* an exception of api_req leaves the method before its fourth statement.
WithQueryFormat(self, old, path, reply) ==
    IF old = Unset \/ "query_format" \notin DOMAIN self
    THEN [format |-> old, sent |-> <<>>, resp |-> Raised("AttributeError")]
    ELSE IF reply.exc # "none"
    THEN [format |-> self.query_format, sent |-> <<path>>, resp |-> reply]
    ELSE [format |-> old, sent |-> <<path>>, resp |-> reply]

\* query_player, YQuery.py 151-165: api_req gives the decoded payload,
\* which has no attribute status_code (line 163)
query_player(self, old, player_id, resource, reply) ==
    LET r == WithQueryFormat(self, old,
                 "player/" \o self.game_key \o ".p." \o player_id
                     \o "/" \o resource, reply)
    IN  [format |-> r.format, sent |-> r.sent,
         res |-> IF r.resp.exc # "none" THEN r.resp
                 ELSE Raised("AttributeError")]

\* find_player, YQuery.py 195-211: None for an empty payload (line 201);
\* the game object has no attribute `selector` (line 203)
YQuery_find_player(self, old, league_id, player_name, reply) ==
    LET r == WithQueryFormat(self, old,
                 "leagues;league_keys=" \o self.game_key \o ".l." \o league_id
                     \o "/players;search=" \o quote_plus(player_name), reply)
    IN  [format |-> r.format, sent |-> r.sent,
         res |-> IF r.resp.exc # "none" THEN r.resp
                 ELSE IF r.resp.val = JObj(EmptyMap) THEN Returned(JNull)
                 ELSE Raised("AttributeError")]

\* query_league, YQuery.py 213-227
query_league(self, old, league_id, resource, reply) ==
    LET r == WithQueryFormat(self, old,
                 "league/" \o self.game_key \o ".l." \o league_id
                     \o "/" \o resource, reply)
    IN  [format |-> r.format, sent |-> r.sent,
         res |-> IF r.resp.exc # "none" THEN r.resp
                 ELSE Raised("AttributeError")]

----------------------------------------------------------------------------
(* Inputs of the resource operations: what api_req answers *)

\* The counted array that holds the items of a sequence
Counted(items) ==
    JObj([k \in {"count"} \cup {str(n - 1) : n \in 1..Len(items)} |->
            IF k = "count" THEN JInt(Len(items))
            ELSE items[CHOOSE n \in 1..Len(items) : str(n - 1) = k]])

\* {k: v}
Single(k, v) == JObj([x \in {k} |-> v])

\* Answers that are no use to any operation: api_req raised, or returned a
\* payload without the expected keys
ApiFailure == Raised("YahooApiException")
BadAnswers == {ApiFailure, Returned(JObj(EmptyMap))}

\* The envelope of the answers about a league: [metadata, {field: value}]
LeagueEnvelope(field, value) ==
    Single("league", JList(<<Single("league_key", JStr("nhl.l.1")),
                             Single(field, value)>>))

\* A manager with the given is_current_login flag (left out, "1" or 0)
ManagerFlags == {Absent, JStr("1"), JInt(0)}

ManagerPayload(n, flag) ==
    Single("manager", JObj(MapOf([k \in {"manager_id", "is_current_login"} |->
                                    IF k = "manager_id" THEN JStr(str(n))
                                    ELSE flag])))

\* A team is described by the flags of its managers; a team payload is the
\* list of single-entry maps that _unwrap_dict merges
NoManagers == <<Absent>>
TeamShapes == SeqsUpTo(ManagerFlags, MaxManagers) \cup {NoManagers}

TeamKey(n) == "nhl.l.1.t." \o str(n)

TeamPayload(n, flags) ==
    Single("team", JList(<<JList(
        <<Single("team_key", JStr(TeamKey(n))), JList(<<>>)>>
          \o (IF flags = NoManagers THEN <<>>
              ELSE <<Single("managers",
                            JList([m \in 1..Len(flags) |->
                                      ManagerPayload(m, flags[m])]))>>))>>))

TeamsAnswer(shapes) ==
    Returned(LeagueEnvelope("teams",
        Counted([n \in 1..Len(shapes) |-> TeamPayload(n, shapes[n])])))

TeamsAnswers ==
    BadAnswers \cup { TeamsAnswer(shapes) : shapes \in SeqsUpTo(TeamShapes, MaxTeams) }

\* The answer to get_leagues: users -> games -> leagues.  GameCounts gives
\* the number of games of each user; a league is described by its
\* is_finished flag (left out, or 1)
GameCounts == {<<>>, <<0>>, <<1>>, <<2>>, <<1, 1>>, <<0, 2>>, <<2, 1>>}
FinishedFlags == {Absent, JInt(1)}
LeagueShapes == SeqsUpTo(FinishedFlags, MaxLeagues)

LeagueKey(u, g, l) == "nhl.l." \o str(u) \o str(g) \o str(l)

LeaguePayload(u, g, l, flag) ==
    Single("league", JList(<<
        JObj(MapOf([k \in {"league_key", "is_finished"} |->
                      IF k = "league_key" THEN JStr(LeagueKey(u, g, l))
                      ELSE flag]))>>))

GamePayload(u, g, flags) ==
    Single("game", JList(<<Single("game_key", JStr("nhl")),
        Single("leagues", Counted([l \in 1..Len(flags) |->
                                      LeaguePayload(u, g, l, flags[l])]))>>))

UserPayload(u, games) ==
    Single("user", JList(<<Single("guid", JStr("u" \o str(u))),
        Single("games", Counted([g \in 1..Len(games) |->
                                    GamePayload(u, g, games[g])]))>>))

\* users[u][g] is the sequence of the flags of the leagues of game g of
\* user u
UsersAnswer(users) ==
    Returned(Single("users", Counted([u \in 1..Len(users) |->
                                         UserPayload(u, users[u])])))

GamesOfUsers == UNION { {c[u] : u \in 1..Len(c)} : c \in GameCounts }

UserShapes(counts) ==
    { users \in [1..Len(counts) ->
                   UNION { [1..m -> LeagueShapes] : m \in GamesOfUsers }] :
        \A u \in 1..Len(counts) : Len(users[u]) = counts[u] }

LeaguesAnswers ==
    BadAnswers \cup { UsersAnswer(users) :
                        users \in UNION { UserShapes(c) : c \in GameCounts } }

\* A player payload: a list whose first item is the list of single-entry
\* maps and whose other items are maps
PlayerKinds == {"C", "LW", "unselected"}

PlayerPayload(n, kind) ==
    Single("player", JList(
        <<JList(<<Single("player_key", JStr("nhl.p." \o str(n))),
                  JList(<<>>),
                  Single("eligible_positions",
                         JList(<<Single("position", JStr("C")),
                                 Single("position", JStr("LW"))>>))>>)>>
          \o (IF kind = "unselected" THEN <<>>
              ELSE <<Single("selected_position",
                            JList(<<Single("coverage_type", JStr("date")),
                                    Single("position", JStr(kind))>>))>>)))

\* Payloads given to the Player constructor: up to MaxParts elements, each
\* in list form (a list of single-entry maps and empty lists) or in map
\* form, in any order
MaxParts == 3

PositionList(codes) ==
    JList([n \in 1..Len(codes) |-> Single("position", JStr(codes[n]))])

PlayerParts ==
    { JList(<<Single("name", JStr("a")), JList(<<>>),
              Single("eligible_positions", PositionList(<<"C", "LW">>))>>),
      JList(<<Single("status", JStr("IR")),
              Single("eligible_positions", PositionList(<<"LW">>))>>),
      JList(<<Single("status", JStr("DL"))>>),
      Single("selected_position",
             JList(<<Single("coverage_type", JStr("date")),
                     Single("position", JStr("C"))>>)),
      Single("eligible_positions", PositionList(<<"LW", "C">>)),
      JObj([k \in {"status", "selected_position"} |->
              IF k = "status" THEN JStr("O")
              ELSE JList(<<Single("position", JStr("LW"))>>)]) }

PlayerPayloads == { JList(l) : l \in SeqsUpTo(PlayerParts, MaxParts) }

PlayersPayload(kinds) ==
    Counted([n \in 1..Len(kinds) |-> PlayerPayload(n, kinds[n])])

RosterAnswer(kinds) ==
    Returned(Single("team", JList(<<Single("team_key", JStr(TeamKey(1))),
        Single("roster",
               JObj([k \in {"coverage_type", "0"} |->
                       IF k = "coverage_type" THEN JStr("date")
                       ELSE Single("players", PlayersPayload(kinds))]))>>)))

RosterAnswers ==
    BadAnswers \cup { RosterAnswer(kinds) :
                        kinds \in SeqsUpTo(PlayerKinds, MaxPlayers) }

\* The arguments of get_roster: a week is None, '' or a str; a date is None
\* or a datetime.date
Weeks == {JNull, JStr(""), JStr("3"), JStr("current")}
Dates == {JNull, Date(2015, 10, 8), Date(2016, 1, 12)}

\* The answers to get_settings: the settings may hold scoring_type, and
\* hold roster_positions and stat_categories well formed, ill formed (an
\* item without its wrapping key) or not at all
RosterPositionItem(position) ==
    Single("roster_position",
           JObj([k \in {"position", "count"} |->
                   IF k = "position" THEN JStr(position) ELSE JStr("2")]))

RosterPositionLists ==
    { Absent, JList(<<>>), JList(<<RosterPositionItem("C")>>),
      JList(<<RosterPositionItem("C"), RosterPositionItem("G")>>),
      JList(<<RosterPositionItem("C"), Single("position", JStr("G"))>>) }

StatItem(fields) ==
    Single("stat", JObj(MapOf([k \in {"stat_id", "stat_position_types"} |->
                                 IF k = "stat_id" THEN JStr("1")
                                 ELSE fields])))

StatPositionTypes ==
    JList(<<Single("stat_position_type", Single("position_type", JStr("P")))>>)

StatCategories ==
    { Absent,
      Single("stats", JList(<<StatItem(StatPositionTypes)>>)),
      Single("stats", JList(<<StatItem(Absent)>>)) }

SettingsAnswer(scoring, positions, categories) ==
    Returned(LeagueEnvelope("settings", JList(<<
        JObj(MapOf([k \in {"draft_type", "scoring_type", "roster_positions",
                           "stat_categories"} |->
                      CASE k = "draft_type" -> JStr("live")
                        [] k = "scoring_type" -> scoring
                        [] k = "roster_positions" -> positions
                        [] k = "stat_categories" -> categories]))>>)))

SettingsAnswers ==
    BadAnswers \cup { SettingsAnswer(scoring, positions, categories) :
                        scoring \in {Absent, JStr("head")},
                        positions \in RosterPositionLists,
                        categories \in StatCategories }

\* A few answers to the other operations
PlayersAnswers ==
    BadAnswers \cup { Returned(LeagueEnvelope("players", PlayersPayload(kinds))) :
                        kinds \in {<<>>, <<"C", "LW">>, <<"C", "unselected">>} }

ScoreboardAnswers ==
    BadAnswers \cup { Returned(LeagueEnvelope("scoreboard",
        Single("matchups", Counted(<<Single("matchup", JStr("m1")),
                                     Single("matchup", JStr("m2"))>>)))) }

StatsAnswers ==
    BadAnswers \cup { Returned(Single("player", JList(<<
        Single("player_key", JStr("nhl.p.1")),
        Single("player_stats",
               JObj([k \in {"0", "stats"} |->
                       IF k = "0" THEN Single("coverage_type", JStr("season"))
                       ELSE JList(<<Single("stat", JStr("s1")),
                                    Single("stat", JStr("s2"))>>)]))>>))) }

\* Names searched for, as sequences of characters
PlayerNames == { <<"K", "a", "n", "e">>, <<"S", "i", "d", " ", "C">>,
                 <<"O", "'", "R">> }

\* Attributes read on the league, the team and the player
ReadNames == {"league_key", "team_key", "scoring_type", "is_finished",
              "roster_positions", "status"}

Call(name, args) == [name |-> name, args |-> args]

\* Answers to the five requests of get_game: to 'game/<key>' a game with
\* or without its key, or a payload without a game; to each sub-collection
\* request its items, or a payload without the collection
GameAnswers ==
    { ApiFailure,
      Returned(Single("game", JList(<<JObj([k \in {"game_key", "code"} |->
                  IF k = "game_key" THEN JStr("303") ELSE JStr("nhl")])>>))),
      Returned(Single("game", JList(<<Single("code", JStr("nhl"))>>))),
      Returned(Single("game", JList(<<>>))) }

\* {'game': [metadata, {field: value}]}
GameEnvelope(field, value) ==
    Returned(Single("game", JList(<<Single("game_key", JStr("303")),
                                    Single(field, value)>>)))

GameWeekItem(week) ==
    Single("game_week",
           JObj([k \in {"week", "start", "end"} |->
                   CASE k = "week" -> JStr(str(week))
                     [] k = "start" -> JStr("2013-10-0" \o str(week))
                     [] k = "end" -> JStr("2013-10-0" \o str(week + 1))]))

GameWeeksAnswers ==
    BadAnswers \cup
        { GameEnvelope("game_weeks", Counted(<<GameWeekItem(1),
                                               GameWeekItem(2)>>)),
          GameEnvelope("game_weeks", Counted(<<GameWeekItem(1),
                                               JStr("week 2")>>)) }

GameStatItems ==
    { Single("stat", JObj([k \in {"stat_id", "name"} |->
                  IF k = "stat_id" THEN JInt(1) ELSE JStr("Goals")])),
      Single("stat", JObj([k \in {"stat_id", "name", "position_types",
                                  "base_stats"} |->
                  CASE k = "stat_id" -> JInt(3)
                    [] k = "name" -> JStr("Points")
                    [] k = "position_types" ->
                          JList(<<Single("position_type", JStr("P"))>>)
                    [] k = "base_stats" ->
                          JList(<<Single("base_stat",
                                         Single("stat_id", JStr("1"))),
                                  Single("base_stat",
                                         Single("stat_id", JStr("2")))>>)])),
      Single("stat", JObj([k \in {"stat_id", "name"} |->
                  IF k = "stat_id" THEN JInt(1) ELSE JStr("G")])),
      Single("stat", Single("name", JStr("Assists"))) }

GameStatsAnswers ==
    BadAnswers \cup
        { GameEnvelope("stat_categories", Single("stats", JList(items))) :
            items \in SeqsUpTo(GameStatItems, 2) }

PositionTypeItem(type) ==
    Single("position_type",
           JObj([k \in {"type", "display_name"} |->
                   IF k = "type" THEN JStr(type) ELSE JStr(type \o "s")]))

PositionTypesAnswers ==
    BadAnswers \cup
        { GameEnvelope("position_types",
                       JList(<<PositionTypeItem("P"), PositionTypeItem("G")>>)),
          GameEnvelope("position_types",
                       JList(<<PositionTypeItem("P"),
                               Single("position_type", JObj(EmptyMap))>>)) }

GameRosterPositionItem(position) ==
    Single("roster_position",
           JObj([k \in {"position", "position_type"} |->
                   IF k = "position" THEN JStr(position) ELSE JStr("P")]))

RosterPositionsAnswers ==
    BadAnswers \cup
        { GameEnvelope("roster_positions",
                       JList(<<GameRosterPositionItem("C"),
                               GameRosterPositionItem("LW")>>)),
          GameEnvelope("roster_positions",
                       JList(<<GameRosterPositionItem("C"),
                               Single("position", JStr("LW"))>>)) }

\* The answers api_req gives, in order, during one get_game
GameReplies ==
    GameAnswers \X GameWeeksAnswers \X GameStatsAnswers
        \X PositionTypesAnswers \X RosterPositionsAnswers

\* The game objects of YQuery.py: __init__ (lines 48-55) assigns game_key;
\* query_format is there once the application has assigned it
YQueryGames ==
    { [game_key |-> "nhl"], [game_key |-> "nhl", query_format |-> "xml"] }

\* What api_req answers to the requests of YQuery.py: an exception, an
\* empty payload or a payload
QueryAnswers ==
    { ApiFailure, Raised("ConnectionError"), Returned(JObj(EmptyMap)),
      Returned(Single("player", JList(<<>>))) }

\* The operations of YQuery.py that set the format of the handle aside
SwapQueries ==
    [op : { Call("query_player", <<self, JStr("1"), JStr("stats")>>) :
              self \in YQueryGames }
          \cup { Call("YQuery.find_player",
                      <<self, JStr("1"), [t |-> "str", chars |-> name]>>) :
                   self \in YQueryGames, name \in PlayerNames }
          \cup { Call("query_league", <<self, JStr("1"), JStr("standings")>>) :
                   self \in YQueryGames },
     answer : QueryAnswers]

\* The operations a caller may invoke, each with what api_req will answer
Invocations ==
    { [op |-> Call("getattr", <<cls, name>>), answer |-> Pending] :
        cls \in {"YahooLeagueResource", "YahooTeamResource",
                 "YahooPlayerResource"},
        name \in ReadNames }
    \cup [op : {Call("get_teams", <<>>), Call("get_team", <<>>)},
          answer : BadAnswers \cup
                     { TeamsAnswer(<<>>),
                       TeamsAnswer(<< <<JInt(0)>>, <<Absent, JStr("1")>> >>) }]
    \cup [op : {Call("get_players", <<>>)}
                 \cup {Call("find_player", <<name>>) : name \in PlayerNames},
          answer : PlayersAnswers]
    \cup [op : {Call("scoreboard", <<>>)}, answer : ScoreboardAnswers]
    \cup [op : {Call("get_settings", <<>>)}, answer : SettingsAnswers]
    \cup [op : {Call("get_roster", <<JNull, JNull>>),
                Call("get_roster", <<JStr("3"), JNull>>)},
          answer : BadAnswers \cup { RosterAnswer(<<"C", "LW">>) }]
    \cup [op : {Call("get_stats", <<JNull>>), Call("get_stats", <<JStr("3")>>)},
          answer : StatsAnswers]
    \cup [op : {Call("get_leagues", <<>>), Call("get_leagues", <<JBool(TRUE)>>)},
          answer : BadAnswers \cup
                     { UsersAnswer(<< << <<Absent, JInt(1)>> >> >>) }]

\* The operations examined one at a time, over every answer of their kind
Queries ==
    [op : {Call("get_team", <<>>)}, answer : TeamsAnswers]
    \cup [op : {Call("get_leagues", <<>>), Call("get_leagues", <<JBool(FALSE)>>),
                Call("get_leagues", <<JBool(TRUE)>>)},
          answer : LeaguesAnswers]
    \cup [op : {Call("get_roster", <<week, date>>) :
                  week \in Weeks, date \in Dates},
          answer : RosterAnswers]
    \cup [op : {Call("YahooPlayerResource", <<api_dict>>) :
                  api_dict \in PlayerPayloads},
          answer : {Pending}]
    \cup [op : {Call("get_game", <<"nhl">>)}, answer : GameReplies]
    \cup SwapQueries

----------------------------------------------------------------------------
(* Resource operations as actions *)

\* A caller invokes an operation; api_req will answer as given
Invoke(c) ==
    /\ nops < MaxOps
    /\ res # Pending \/ op = NoOp
    /\ op' = c.op
    /\ answer' = c.answer
    /\ sent' = <<>>
    /\ res' = Pending
    /\ nops' = nops + 1
    /\ UNCHANGED <<game, league, team, player, by, format>>

\* An object that is the handle: isinstance(parent, YahooFantasySports)
IsHandle(object) == object = "handle"

\* self._parent as the constructors set it: get_game gives a game the
\* handle (base.py 162), get_leagues gives a league the game (game.py 181),
\* get_teams a team the league (league.py 231), get_players a player the
\* league (league.py 199), get_roster a roster the team (league.py 137); a
\* team gives itself to its managers (league.py 110) and a roster to its
\* players (league.py 101)
_parent(object) ==
    CASE object = "game" -> "handle"
      [] object = "league" -> "game"
      [] object = "team" -> "league"
      [] object = "player" -> "league"
      [] object = "manager" -> "team"
      [] object = "roster" -> "team"

RECURSIVE _api(_)

\* Variant of _api that stops at the nearest parent
_api_Nearest(self) == _parent(self)

\* BaseYahooResource._api, resources/base.py 100-111: walk up the parents
\* until one is the handle
_api(self) ==
    LET parent == _parent(self)
    IN  IF IsHandle(parent) THEN parent ELSE _api(parent)

\* The operation in progress on object self ends as r says; its requests
\* were handed to self._api
Complete(self, r) ==
    /\ sent' = r.sent
    /\ res' = r.res
    /\ by' = by \o [n \in 1..Len(r.sent) |-> _api(self)]
    /\ UNCHANGED <<op, answer, nops>>

Running(name) == op.name = name /\ res = Pending

\* obj.<name> on the league, the team or the player
ReadField ==
    /\ Running("getattr")
    /\ LET cls == op.args[1]
           self == CASE cls = "YahooLeagueResource" -> league
                     [] cls = "YahooTeamResource" -> team
                     [] cls = "YahooPlayerResource" -> player
       IN  Complete("none", Done(<<>>, getattr(cls, self, op.args[2]), self))
    /\ UNCHANGED <<game, league, team, player, format>>

GetTeams ==
    /\ Running("get_teams")
    /\ Complete("league", get_teams(league, answer))
    /\ UNCHANGED <<game, league, team, player, format>>

GetTeam ==
    /\ Running("get_team")
    /\ Complete("league", get_team(league, answer))
    /\ UNCHANGED <<game, league, team, player, format>>

GetPlayers ==
    /\ Running("get_players")
    /\ Complete("league", get_players(league, answer))
    /\ UNCHANGED <<game, league, team, player, format>>

FindPlayer ==
    /\ Running("find_player")
    /\ Complete("league", find_player(league, op.args[1], answer))
    /\ UNCHANGED <<game, league, team, player, format>>

Scoreboard ==
    /\ Running("scoreboard")
    /\ Complete("league", scoreboard(league, answer))
    /\ UNCHANGED <<game, league, team, player, format>>

\* get_settings is the one operation that assigns to self._api_dict
GetSettings ==
    /\ Running("get_settings")
    /\ LET r == get_settings(league, answer)
       IN  Complete("league", r) /\ league' = r.self
    /\ UNCHANGED <<game, team, player, format>>

\* week and date are None when the caller leaves them out
GetRoster ==
    /\ Running("get_roster")
    /\ Complete("team", get_roster(team, op.args[1], op.args[2], answer))
    /\ UNCHANGED <<game, league, team, player, format>>

GetStats ==
    /\ Running("get_stats")
    /\ Complete("player", get_stats(player, op.args[1], answer))
    /\ UNCHANGED <<game, league, team, player, format>>

\* active_only is False when the caller leaves it out
GetLeagues ==
    /\ Running("get_leagues")
    /\ Complete("game", get_leagues(game,
                            IF op.args = <<>> THEN JBool(FALSE)
                            ELSE op.args[1],
                            answer))
    /\ UNCHANGED <<game, league, team, player, format>>

\* YahooPlayerResource(api_dict, roster): the constructor sends nothing
NewPlayer ==
    /\ Running("YahooPlayerResource")
    /\ Complete("none",
                Done(<<>>, YahooPlayerResource(op.args[1], "roster"), player))
    /\ UNCHANGED <<game, league, team, player, format>>

\* get_game(game_key), base.py 158-162, up to the call of the constructor:
\* the handle itself asks for 'game/<key>' and takes data['game'][0]
GetGame ==
    /\ Running("get_game")
    /\ sent = <<>>
    /\ sent' = <<"game/" \o op.args[1]>>
    /\ by' = Append(by, "handle")
    /\ res' = IF GameOf(answer[1]).exc # "none"
              THEN Raised(GameOf(answer[1]).exc)
              ELSE Pending
    /\ UNCHANGED <<game, league, team, player, op, answer, nops, format>>

\* The n-th of the four requests of YahooGameResource.__init__ (game.py
\* 108-119) and the decoding of its answer; the game is handed to the
\* caller of get_game when the fourth has been decoded
SubCollection(n) ==
    /\ Running("get_game")
    /\ Len(sent) = n
    /\ LET self == GameOf(answer[1]).val
           path == ResourcePath("game", self.o, SubCollections[n])
           decoded == Bind(answer[n + 1], LAMBDA d : SubCollectionOf(n, d))
       IN  IF path.exc # "none"
           THEN res' = path /\ UNCHANGED <<sent, by>>
           ELSE /\ sent' = Append(sent, path.val)
                /\ by' = Append(by, _api("game"))
                /\ res' = IF decoded.exc # "none" THEN decoded
                          ELSE IF n < Len(SubCollections) THEN Pending
                          ELSE Returned(YahooGameResource(self, "handle",
                                   [i \in 1..Len(SubCollections) |->
                                       SubCollectionOf(i, answer[i + 1].val).val]))
    /\ UNCHANGED <<game, league, team, player, op, answer, nops, format>>

_get_game_weeks == SubCollection(1)
_get_stat_categories == SubCollection(2)
_get_position_types == SubCollection(3)
_get_roster_positions == SubCollection(4)

\* An operation of YQuery.py ends as r says: its request went to
\* self.yhandler, and the handle's format is what the operation left
CompleteQuery(r) ==
    /\ sent' = r.sent
    /\ res' = r.res
    /\ format' = r.format
    /\ by' = by \o [n \in 1..Len(r.sent) |-> "handle"]
    /\ UNCHANGED <<game, league, team, player, op, answer, nops>>

QueryPlayer ==
    /\ Running("query_player")
    /\ CompleteQuery(query_player(op.args[1], format, op.args[2].s,
                                  op.args[3].s, answer))

YQueryFindPlayer ==
    /\ Running("YQuery.find_player")
    /\ CompleteQuery(YQuery_find_player(op.args[1], format, op.args[2].s,
                                        op.args[3].chars, answer))

QueryLeague ==
    /\ Running("query_league")
    /\ CompleteQuery(query_league(op.args[1], format, op.args[2].s,
                                  op.args[3].s, answer))

\* The handle and the decoders take no part in the resource behaviours
HandleAtRest ==
    /\ authd = CredMap("at0", "as0", "sh0")
    /\ store = authd
    /\ nwrites = 0
    /\ pc = "idle"
    /\ req = NoRequest
    /\ entry = authd
    /\ log = <<>>
    /\ responses = <<>>
    /\ raises = <<>>
    /\ ret = JNull
    /\ ncalls = 0
    /\ fn = "none"
    /\ arg = JNull
    /\ out = JNull

\* The resources as constructed from earlier answers
GameDict == [k \in {"game_key"} |-> JStr("nhl")]

LeagueDicts ==
    { MapOf([k \in {"league_key", "scoring_type", "is_finished"} |->
               CASE k = "league_key" -> JStr("nhl.l.1")
                 [] k = "scoring_type" -> JStr("point")
                 [] k = "is_finished" -> finished]) :
        finished \in FinishedFlags }

TeamDict ==
    [k \in {"team_key", "managers"} |->
        IF k = "team_key" THEN JStr(TeamKey(1))
        ELSE JList(<<Resource("YahooManagerResource",
                              [x \in {"manager_id"} |-> JStr("1")], "team")>>)]

PlayerDict ==
    [k \in {"player_key", "status"} |->
        IF k = "player_key" THEN JStr("nhl.p.1") ELSE JStr("IR")]

\* Behaviours of the resources: up to MaxOps operations, one after another
InitResource ==
    /\ HandleAtRest
    /\ game = GameDict
    /\ league \in LeagueDicts
    /\ team = TeamDict
    /\ player = PlayerDict
    /\ op = NoOp
    /\ answer = Pending
    /\ sent = <<>>
    /\ res = Pending
    /\ nops = 0
    /\ by = <<>>
    /\ format = Unset

NextResource ==
    \/ \E c \in Invocations : Invoke(c) /\ UNCHANGED <<apiVars, decVars>>
    \/ ReadField /\ UNCHANGED <<apiVars, decVars>>
    \/ GetTeams /\ UNCHANGED <<apiVars, decVars>>
    \/ GetTeam /\ UNCHANGED <<apiVars, decVars>>
    \/ GetPlayers /\ UNCHANGED <<apiVars, decVars>>
    \/ FindPlayer /\ UNCHANGED <<apiVars, decVars>>
    \/ Scoreboard /\ UNCHANGED <<apiVars, decVars>>
    \/ GetSettings /\ UNCHANGED <<apiVars, decVars>>
    \/ GetRoster /\ UNCHANGED <<apiVars, decVars>>
    \/ GetStats /\ UNCHANGED <<apiVars, decVars>>
    \/ GetLeagues /\ UNCHANGED <<apiVars, decVars>>

SpecResource == InitResource /\ [][NextResource]_vars

\* The attribute `format` of the handle: base.py assigns none (the class
\* has _format); an application that uses the operations of YQuery.py has
\* assigned it the format of the session
HandleFormats(call) ==
    IF call.name \in {"query_player", "YQuery.find_player", "query_league"}
    THEN {Unset, _format}
    ELSE {Unset}

\* One operation applied to every answer of its kind
InitQuery ==
    /\ HandleAtRest
    /\ game = GameDict
    /\ league \in LeagueDicts
    /\ team = TeamDict
    /\ player = PlayerDict
    /\ \E c \in Queries : op = c.op /\ answer = c.answer
    /\ sent = <<>>
    /\ res = Pending
    /\ nops = 1
    /\ by = <<>>
    /\ format \in HandleFormats(op)

NextQuery ==
    \/ GetTeam /\ UNCHANGED <<apiVars, decVars>>
    \/ GetRoster /\ UNCHANGED <<apiVars, decVars>>
    \/ GetLeagues /\ UNCHANGED <<apiVars, decVars>>
    \/ NewPlayer /\ UNCHANGED <<apiVars, decVars>>
    \/ GetGame /\ UNCHANGED <<apiVars, decVars>>
    \/ _get_game_weeks /\ UNCHANGED <<apiVars, decVars>>
    \/ _get_stat_categories /\ UNCHANGED <<apiVars, decVars>>
    \/ _get_position_types /\ UNCHANGED <<apiVars, decVars>>
    \/ _get_roster_positions /\ UNCHANGED <<apiVars, decVars>>
    \/ QueryPlayer /\ UNCHANGED <<apiVars, decVars>>
    \/ YQueryFindPlayer /\ UNCHANGED <<apiVars, decVars>>
    \/ QueryLeague /\ UNCHANGED <<apiVars, decVars>>

SpecQuery == InitQuery /\ [][NextQuery]_vars

\* The accessors that ask the server, each with what api_req may answer
Accessors == {"get_teams", "get_team", "get_players", "get_roster",
              "get_leagues", "scoreboard"}

Repeats == { c \in Invocations : c.op.name \in Accessors }

\* Variant of InvokeAgain in which the accessor answers a repeated call
\* with the result it kept from the previous one
InvokeAgain_Cached ==
    /\ nops < MaxOps
    /\ res # Pending
    /\ \E c \in Repeats : c.op = op /\ answer' = c.answer
    /\ sent' = <<>>
    /\ res' = res
    /\ nops' = nops + 1
    /\ UNCHANGED <<game, league, team, player, op, by, format>>

\* The caller calls the same accessor of the same object once more; the
\* server may answer as before or otherwise
InvokeAgain ==
    /\ nops < MaxOps
    /\ res # Pending
    /\ \E c \in Repeats : c.op = op /\ answer' = c.answer
    /\ sent' = <<>>
    /\ res' = Pending
    /\ nops' = nops + 1
    /\ UNCHANGED <<game, league, team, player, op, by, format>>

\* One accessor called up to MaxOps times in a row on the same object
InitRepeat ==
    /\ HandleAtRest
    /\ game = GameDict
    /\ league \in LeagueDicts
    /\ team = TeamDict
    /\ player = PlayerDict
    /\ \E c \in Repeats : op = c.op /\ answer = c.answer
    /\ sent = <<>>
    /\ res = Pending
    /\ nops = 1
    /\ by = <<>>
    /\ format = Unset

NextRepeat ==
    \/ InvokeAgain /\ UNCHANGED <<apiVars, decVars>>
    \/ GetTeams /\ UNCHANGED <<apiVars, decVars>>
    \/ GetTeam /\ UNCHANGED <<apiVars, decVars>>
    \/ GetPlayers /\ UNCHANGED <<apiVars, decVars>>
    \/ GetRoster /\ UNCHANGED <<apiVars, decVars>>
    \/ GetLeagues /\ UNCHANGED <<apiVars, decVars>>
    \/ Scoreboard /\ UNCHANGED <<apiVars, decVars>>

SpecRepeat == InitRepeat /\ [][NextRepeat]_vars

----------------------------------------------------------------------------
(* Properties of api_req *)

SignedRequests == SelectSeq(log, LAMBDA e : e.kind = "api")
Refreshes      == SelectSeq(log, LAMBDA e : e.kind = "refresh")
Registrations  == SelectSeq(log, LAMBDA e : e.kind = "request_token")
ApiAndRefresh  == SelectSeq(log, LAMBDA e : e.kind \in {"api", "refresh"})
KindsOf(l)     == [i \in 1..Len(l) |-> l[i].kind]

Finished        == pc \in {"returned", "raised"}
TransportFailed == pc = "raised" /\ raises[1].type = "ConnectionError"
Successful(response) == response.status_code = 200

SameRequest(a, b) ==
    /\ a.url = b.url
    /\ a.method = b.method
    /\ a.data = b.data
    /\ a.headers = b.headers

C2_PersistentFailureRaisesApiError ==
    (/\ Finished
     /\ Len(responses) = 2
     /\ ~Successful(responses[1])
     /\ ~Successful(responses[2])) =>
        /\ pc = "raised"
        /\ Len(raises) = 1
        /\ raises[1].type = "YahooApiException"
        /\ raises[1].args[1] = responses[2].status_code
        /\ Len(SignedRequests) = 2
        /\ Len(Refreshes) = 1

HasWrapper(body) ==
    body.json.t = "obj" /\ "fantasy_content" \in DOMAIN body.json.o

\* C3: when the last response of the call is successful and its body has
\* the 'fantasy_content' wrapper key, api_req raises nothing and returns
\* the value under that key of that body: of the second body after a
\* rejected first attempt, of the first body when it is successful.
C3_ReturnsPayloadOfSuccessfulResponse ==
    \A n \in {1, 2} :
        (/\ Finished
         /\ Len(responses) = n
         /\ Successful(responses[n])
         /\ HasWrapper(responses[n].body)) =>
            /\ pc = "returned"
            /\ raises = <<>>
            /\ ret = responses[n].body.json.o["fantasy_content"]

\* A rejected first response that itself carries a payload, then a
\* successful retry with another payload
C3_Witness ==
    /\ pc = "returned"
    /\ Len(responses) = 2
    /\ ~Successful(responses[1])
    /\ HasWrapper(responses[1].body)
    /\ Successful(responses[2])
    /\ HasWrapper(responses[2].body)
    /\ responses[1].body # responses[2].body

NoAccessToken(d) ==
    \/ "oauth_access_token" \notin DOMAIN d
    \/ "oauth_access_token_secret" \notin DOMAIN d
    \/ d["oauth_access_token"] = ""
    \/ d["oauth_access_token_secret"] = ""

\* C4: a call entered without an access token or without an access token
\* secret (absent or empty) starts the registration flow, and its request
\* token request goes out before any signed request; a call entered with
\* both present and non-empty never starts the registration flow.
C4_RegistrationBeforeFirstRequest ==
    ncalls > 0 =>
        IF NoAccessToken(entry)
        THEN /\ (pc # "reg_user") =>
                    (Len(log) >= 1 /\ log[1].kind = "request_token")
             /\ (pc = "reg_user") => log = <<>>
             /\ \A i \in 1..Len(log) : log[i].kind = "api" => i > 1
        ELSE /\ pc \notin {"reg_user", "get_login_token"}
             /\ \A i \in 1..Len(log) :
                    log[i].kind \notin {"request_token", "access_token"}

\* A call entered with an access token but no secret, which registered and
\* then sent its signed request
C4_Witness ==
    /\ "oauth_access_token" \in DOMAIN entry
    /\ entry["oauth_access_token"] # ""
    /\ "oauth_access_token_secret" \notin DOMAIN entry
    /\ Len(log) = 3
    /\ KindsOf(log) = <<"request_token", "access_token", "api">>

HasDescription(body) ==
    /\ body.json.t = "obj"
    /\ "error" \in DOMAIN body.json.o
    /\ body.json.o["error"].t = "obj"
    /\ "description" \in DOMAIN body.json.o["error"].o

\* C5: after a persistent failure the exception is a YahooApiException
\* whose message is error.description of the final body when that field
\* is there and the raw body otherwise.
C5_MessageIsDescriptionOrRawBody ==
    (/\ Finished
     /\ Len(responses) = 2
     /\ ~Successful(responses[2])) =>
        /\ pc = "raised"
        /\ raises[1].type = "YahooApiException"
        /\ raises[1].args[2] =
              IF HasDescription(responses[2].body)
              THEN responses[2].body.json.o["error"].o["description"]
              ELSE JStr(responses[2].body.content)

\* C6: a signed request that fails in the transport ends the call with the
\* transport's own exception; it is not retried, and when it was the first
\* attempt no refresh and no second request follow.
C6_TransportFailureNotRetried ==
    Len(SignedRequests) > Len(responses) =>
        /\ pc = "raised"
        /\ raises = <<Exception("ConnectionError", <<>>)>>
        /\ Len(SignedRequests) = Len(responses) + 1
        /\ responses = <<>> =>
              (Len(SignedRequests) = 1 /\ Len(Refreshes) = 0)

\* The first attempt of a call that needed no registration failed in the
\* transport
C6_Witness ==
    /\ pc = "raised"
    /\ responses = <<>>
    /\ Len(SignedRequests) = 1
    /\ raises[1].type = "ConnectionError"
    /\ log[Len(log)].kind = "api"

----------------------------------------------------------------------------
(* Properties of the decoders *)

Applied(f) == fn = f /\ out # Pending

\* The wire key of index i, written out
KeyOf(i) == <<"0", "1", "2", "3", "4", "5", "6", "7", "8", "9">>[i + 1]

HasIndexes(m, n) == \A i \in 0..(n - 1) : KeyOf(i) \in DOMAIN m

\* C7: for a map whose `count` is the integer N >= 0 and which has the keys
\* "0".."N-1", _unwrap_array returns a list of exactly N elements, the i-th
\* being the value under key str(i); other keys of the map do not show.
C7_CountedArrayInIndexOrder ==
    (/\ Applied("_unwrap_array")
     /\ "count" \in DOMAIN arg.o
     /\ arg.o["count"].t = "int"
     /\ arg.o["count"].i >= 0
     /\ HasIndexes(arg.o, arg.o["count"].i)) =>
        /\ out.exc = "none"
        /\ out.val.t = "list"
        /\ Len(out.val.l) = arg.o["count"].i
        /\ \A i \in 0..(arg.o["count"].i - 1) :
              out.val.l[i + 1] = arg.o[KeyOf(i)]

\* A map with count 2, two different elements, a third index and a foreign
\* key, decoded
C7_Witness ==
    /\ Applied("_unwrap_array")
    /\ "count" \in DOMAIN arg.o
    /\ arg.o["count"] = JInt(2)
    /\ DOMAIN arg.o = {"count", "0", "1", "2", "position"}
    /\ arg.o["0"] # arg.o["1"]
    /\ out = Returned(JList(<<arg.o["0"], arg.o["1"]>>))

NonNumeric(v) == v \in {JNull, JStr("two")}

\* C8: _unwrap_array raises, and returns no list at all, when `count` is
\* missing or not numeric, or when one of the keys "0".."count-1" is
\* missing.
C8_MalformedCountedArrayRaises ==
    (/\ Applied("_unwrap_array")
     /\ \/ "count" \notin DOMAIN arg.o
        \/ NonNumeric(arg.o["count"])
        \/ /\ arg.o["count"].t = "int"
           /\ ~HasIndexes(arg.o, arg.o["count"].i)) =>
        /\ out.exc \in {"KeyError", "TypeError"}
        /\ out.val = JNull

\* count 2 with key "0" present and key "1" absent
C8_Witness ==
    /\ Applied("_unwrap_array")
    /\ "count" \in DOMAIN arg.o
    /\ arg.o["count"] = JInt(2)
    /\ "0" \in DOMAIN arg.o
    /\ "1" \notin DOMAIN arg.o
    /\ out = Raised("KeyError")

\* C9: with `count` given as the numeric string "N" and the keys "0".."N-1"
\* present, _unwrap_array returns the same N elements as with the integer
\* count N.
C9_NumericStringCount ==
    \A n \in 0..MaxCount :
        (/\ Applied("_unwrap_array")
         /\ "count" \in DOMAIN arg.o
         /\ arg.o["count"] = JStr(KeyOf(n))
         /\ HasIndexes(arg.o, n)) =>
            out = Returned(JList([i \in 1..n |-> arg.o[KeyOf(i - 1)]]))

IsSingleEntryMap(item) == item.t = "obj" /\ Cardinality(DOMAIN item.o) = 1
IsEmptyList(item)      == item.t = "list" /\ item.l = <<>>

HasKey(item, k) == item.t = "obj" /\ k \in DOMAIN item.o

\* C10: over a list of single-entry maps and empty lists, _unwrap_dict
\* raises nothing and returns the map whose keys are the union of the
\* items' keys, each with the value of its last occurrence.
C10_LastOccurrenceWins ==
    (/\ Applied("_unwrap_dict")
     /\ \A n \in 1..Len(arg.l) :
            IsSingleEntryMap(arg.l[n]) \/ IsEmptyList(arg.l[n])) =>
        /\ out.exc = "none"
        /\ out.val.t = "obj"
        /\ DOMAIN out.val.o =
              {k \in DictKeys : \E n \in 1..Len(arg.l) : HasKey(arg.l[n], k)}
        /\ \A k \in DOMAIN out.val.o :
              \E n \in 1..Len(arg.l) :
                  /\ HasKey(arg.l[n], k)
                  /\ \A m \in (n + 1)..Len(arg.l) : ~HasKey(arg.l[m], k)
                  /\ out.val.o[k] = arg.l[n].o[k]

\* [{a:1}, {b:2}, [], {a:3}] gives {a:3, b:2}
C10_Witness ==
    /\ Applied("_unwrap_dict")
    /\ arg = JList(<<JObj([x \in {"a"} |-> JInt(1)]),
                     JObj([x \in {"b"} |-> JInt(2)]),
                     JList(<<>>),
                     JObj([x \in {"a"} |-> JInt(3)])>>)
    /\ out = Returned(JObj([x \in {"a", "b"} |->
                              IF x = "a" THEN JInt(3) ELSE JInt(2)]))

\* C11: _unwrap_dict raises when an item is neither a single-entry map nor
\* an empty list; a map with no entry or with several is rejected, not
\* merged.
C11_OtherItemsRejected ==
    (/\ Applied("_unwrap_dict")
     /\ \E n \in 1..Len(arg.l) :
            ~(IsSingleEntryMap(arg.l[n]) \/ IsEmptyList(arg.l[n]))) =>
        out.exc # "none"

HasField(item, key) == item.t = "obj" /\ key \in DOMAIN item.o

\* C12: _flatten_array returns a list as long as its input whose i-th
\* element is item i's value for the field, in input order, and raises
\* when an item lacks the field.
C12_FieldOfEachItemInOrder ==
    Applied("_flatten_array") =>
        IF \A n \in 1..Len(arg.data.l) : HasField(arg.data.l[n], arg.key)
        THEN /\ out.exc = "none"
             /\ out.val.t = "list"
             /\ Len(out.val.l) = Len(arg.data.l)
             /\ \A n \in 1..Len(arg.data.l) :
                    out.val.l[n] = arg.data.l[n].o[arg.key]
        ELSE /\ out.exc \in {"KeyError", "TypeError"}
             /\ out.val = JNull

\* [{position:C}, {position:LW}] flattened on 'position' gives [C, LW]
C12_Witness ==
    /\ Applied("_flatten_array")
    /\ arg.key = "position"
    /\ arg.data = JList(<<JObj([x \in {"position"} |-> JStr("C")]),
                          JObj([x \in {"position"} |-> JStr("LW")])>>)
    /\ out = Returned(JList(<<JStr("C"), JStr("LW")>>))

\* The counted-array encoding of a sequence: count = length, element i
\* under key str(i)
Encode(s) ==
    JObj([k \in {"count"} \cup {KeyOf(i) : i \in 0..(Len(s) - 1)} |->
            IF k = "count" THEN JInt(Len(s))
            ELSE s[(CHOOSE i \in 0..(Len(s) - 1) : KeyOf(i) = k) + 1]])

\* Two counted-array maps are equivalent when they have the same count and
\* the same value under each index below it
Equivalent(a, b) ==
    /\ a.o["count"] = b.o["count"]
    /\ \A i \in 0..(a.o["count"].i - 1) : a.o[KeyOf(i)] = b.o[KeyOf(i)]

\* C13: for a counted-array map (count an integer N >= 0) that
\* _unwrap_array accepts, encoding the decoded list gives an equivalent
\* map; and decoding the encoding of a sequence gives that sequence back.
C13_RoundTrip ==
    /\ (/\ Applied("_unwrap_array")
        /\ out.exc = "none"
        /\ arg.o["count"].i >= 0) =>
            Equivalent(Encode(out.val.l), arg)
    /\ \A s \in SeqsUpTo(Elems, MaxIndex + 1) :
        (Applied("_unwrap_array") /\ arg = Encode(s)) =>
            out = Returned(JList(s))

\* The encoding of a three-element sequence, decoded
C13_Witness ==
    /\ Applied("_unwrap_array")
    /\ arg = Encode(<<JStr("obj1"), JStr("obj2"), JStr("obj1")>>)
    /\ out = Returned(JList(<<JStr("obj1"), JStr("obj2"), JStr("obj1")>>))

\* C16: reading a field that was never populated raises AttributeError and
\* never gives a default; reading a populated one gives the stored value.
C16_UnknownFieldRaises ==
    Applied("getattr") =>
        IF arg.attribute \in DOMAIN arg.api_dict
        THEN out = Returned(arg.api_dict[arg.attribute])
        ELSE out.exc = "AttributeError"

\* C16 as amended: the same for every name the object's class does not
\* define as a property; the properties status, has_player_notes,
\* on_disabled_list, is_current_login and is_finished answer None or False
\* for a name that was never populated.
C16_UnknownNonPropertyFieldRaises ==
    Applied("getattr") =>
        /\ arg.attribute \notin Properties(arg.cls) =>
              IF arg.attribute \in DOMAIN arg.api_dict
              THEN out = Returned(arg.api_dict[arg.attribute])
              ELSE out.exc = "AttributeError" /\ out.val = JNull
        /\ (/\ arg.attribute \notin DOMAIN arg.api_dict
            /\ arg.attribute \in Properties(arg.cls)
            /\ arg.attribute \in {"status", "has_player_notes"}) =>
              out = Returned(JNull)
        /\ (/\ arg.attribute \notin DOMAIN arg.api_dict
            /\ arg.attribute \in Properties(arg.cls)
            /\ arg.attribute \in {"on_disabled_list", "is_current_login",
                                  "is_finished"}) =>
              out = Returned(JBool(FALSE))

\* `status` read on a league that does not hold it, where no property of
\* that name exists
C16_Witness ==
    /\ Applied("getattr")
    /\ arg.cls = "YahooLeagueResource"
    /\ arg.attribute = "status"
    /\ "status" \notin DOMAIN arg.api_dict
    /\ "name" \in DOMAIN arg.api_dict
    /\ out = Raised("AttributeError")

----------------------------------------------------------------------------
(* Properties of the resources *)

\* The operation `name` has run
Ran(name) == op.name = name /\ res # Pending

\* The answer to get_teams holds a teams array in which every team has a
\* list of managers
TeamsArray == answer.val.o["league"].l[2].o["teams"].o
TeamCount == TeamsArray["count"].i
TeamItems(n) == TeamsArray[KeyOf(n - 1)].o["team"].l[1].l

IsManagersItem(item) == item.t = "obj" /\ "managers" \in DOMAIN item.o

ManagersOfTeam(n) ==
    LET items == TeamItems(n)
    IN  items[CHOOSE i \in 1..Len(items) : IsManagersItem(items[i])]
            .o["managers"].l

HasTeams ==
    /\ answer.exc = "none"
    /\ "league" \in DOMAIN answer.val.o
    /\ \A n \in 1..TeamCount :
          \E i \in 1..Len(TeamItems(n)) : IsManagersItem(TeamItems(n)[i])

\* The manager payload carries an is_current_login flag that is true
ManagerIsCurrentLogin(m) ==
    LET fields == m.o["manager"].o
    IN  /\ "is_current_login" \in DOMAIN fields
        /\ bool(fields["is_current_login"])

\* The teams of the answer, by position, with a manager of the current login
TeamsOfCurrentLogin ==
    {n \in 1..TeamCount :
        \E m \in 1..Len(ManagersOfTeam(n)) :
            ManagerIsCurrentLogin(ManagersOfTeam(n)[m])}

\* C14: when some team of the answer has a manager whose is_current_login
\* flag is true, get_team returns the first such team in the order of the
\* answer, a team whose own is_current_login is true.
C14_FirstTeamOfCurrentLogin ==
    (Ran("get_team") /\ HasTeams /\ TeamsOfCurrentLogin # {}) =>
        LET first == CHOOSE n \in TeamsOfCurrentLogin :
                        \A m \in TeamsOfCurrentLogin : n <= m
        IN  /\ res.exc = "none"
            /\ res.val.t = "res"
            /\ res.val.cls = "YahooTeamResource"
            /\ res.val.o["team_key"] = JStr(TeamKey(first))
            /\ Len(res.val.o["managers"].l) = Len(ManagersOfTeam(first))
            /\ TeamIsCurrentLogin(res.val.o) = Returned(JBool(TRUE))

\* Both teams of the answer have a manager of the current login, the
\* second manager of the first team; the first team is returned
C14_Witness ==
    /\ Ran("get_team")
    /\ HasTeams
    /\ TeamsOfCurrentLogin = {1, 2}
    /\ Len(ManagersOfTeam(1)) = 2
    /\ ~ManagerIsCurrentLogin(ManagersOfTeam(1)[1])
    /\ res.exc = "none"
    /\ res.val.o["team_key"] = JStr(TeamKey(1))

\* C15: when no team of the answer has a manager of the current login (no
\* team at all included), get_team raises and returns nothing.
C15_NoTeamRaisesNotFound ==
    (Ran("get_team") /\ HasTeams /\ TeamsOfCurrentLogin = {}) =>
        res.exc # "none"


\* The answer to get_leagues holds users, each with games, each with leagues
HasUsers == answer.exc = "none" /\ "users" \in DOMAIN answer.val.o

UsersArray == answer.val.o["users"].o
GamesArray(u) == UsersArray[KeyOf(u - 1)].o["user"].l[2].o["games"].o
LeaguesArray(u, g) == GamesArray(u)[KeyOf(g - 1)].o["game"].l[2].o["leagues"].o

\* The leaf entries, as <<user, game, league>> positions, and their payload
Leaves ==
    UNION { UNION { { <<u, g, l>> : l \in 1..LeaguesArray(u, g)["count"].i } :
                    g \in 1..GamesArray(u)["count"].i } :
            u \in 1..UsersArray["count"].i }

LeafDict(x) == LeaguesArray(x[1], x[2])[KeyOf(x[3] - 1)].o["league"].l[1].o

\* Traversal order: by user, then game, then league index
Before(x, y) ==
    \/ x[1] < y[1]
    \/ x[1] = y[1] /\ x[2] < y[2]
    \/ x[1] = y[1] /\ x[2] = y[2] /\ x[3] < y[3]

LeafFinished(x) ==
    "is_finished" \in DOMAIN LeafDict(x) /\ bool(LeafDict(x)["is_finished"])

ActiveOnly == op.args = <<JBool(TRUE)>>

LeavesKept == IF ActiveOnly THEN {x \in Leaves : ~LeafFinished(x)} ELSE Leaves

\* C17: get_leagues returns one League per leaf entry of the nested
\* counted arrays, in traversal order; with active_only set, exactly those
\* whose is_finished is false, and otherwise all of them.
C17_LeaguesInTraversalOrder ==
    (Ran("get_leagues") /\ HasUsers) =>
        /\ res.exc = "none"
        /\ Len(res.val.l) = Cardinality(LeavesKept)
        /\ \A x \in LeavesKept :
              res.val.l[Cardinality({y \in LeavesKept : Before(y, x)}) + 1]
                 = Resource("YahooLeagueResource", LeafDict(x), "game")

\* Two users, three games, finished and unfinished leagues, active_only set
C17_Witness ==
    /\ Ran("get_leagues")
    /\ HasUsers
    /\ ActiveOnly
    /\ UsersArray["count"].i = 2
    /\ GamesArray(1)["count"].i = 2
    /\ Cardinality(Leaves) >= 4
    /\ Cardinality(LeavesKept) = 2
    /\ LeafFinished(<<1, 1, 1>>)
    /\ Len(res.val.l) = 2


\* The arguments of the get_roster call
WeekArg == op.args[1]
DateArg == op.args[2]

\* The paths a roster request may carry
RosterPath(params) == "team/" \o TeamKey(1) \o "/roster" \o params
WeekPaths == { RosterPath(";week=" \o w) : w \in {"", "3", "current"} }
DatePaths == { RosterPath(";date=" \o d) : d \in {"2015-10-08", "2016-01-12"} }

\* The date as the service expects it
DateText(d) ==
    CASE d = Date(2015, 10, 8) -> "2015-10-08"
      [] d = Date(2016, 1, 12) -> "2016-01-12"

\* The answer to get_roster holds a roster whose players can all be built
RosterPlayers == answer.val.o["team"].l[2].o["roster"].o["0"].o["players"].o

HasRoster ==
    /\ answer.exc = "none"
    /\ "team" \in DOMAIN answer.val.o
    /\ \A n \in 1..RosterPlayers["count"].i :
          \E i \in 1..Len(RosterPlayers[KeyOf(n - 1)].o["player"].l) :
             LET item == RosterPlayers[KeyOf(n - 1)].o["player"].l[i]
             IN  item.t = "obj" /\ "selected_position" \in DOMAIN item.o

\* C20: get_roster issues one request, whose path carries a week parameter
\* or a date parameter and never both, whatever the arguments.
C20_ExactlyOneOfWeekOrDate ==
    Ran("get_roster") =>
        /\ Len(sent) = 1
        /\ sent[1] \in WeekPaths \cup DatePaths

\* C20 as amended: the one request carries the week when a week is given
\* (with or without a date), the date as YYYY-MM-DD when only a date is
\* given, and no parameter when neither is given; the Roster returned for a
\* well-formed answer holds one Player per entry of the counted array, in
\* index order.
C20_AtMostOneOfWeekOrDate ==
    Ran("get_roster") =>
        /\ Len(sent) = 1
        /\ sent[1] = IF WeekArg \notin {JNull, JStr("")}
                     THEN RosterPath(";week=" \o WeekArg.s)
                     ELSE IF DateArg # JNull
                     THEN RosterPath(";date=" \o DateText(DateArg))
                     ELSE RosterPath("")
        /\ HasRoster =>
            /\ res.exc = "none"
            /\ res.val.cls = "YahooRosterResource"
            /\ Len(res.val.o["players"].l) = RosterPlayers["count"].i
            /\ \A n \in 1..RosterPlayers["count"].i :
                  LET p == res.val.o["players"].l[n]
                  IN  /\ p.cls = "YahooPlayerResource"
                      /\ p.o["player_key"] =
                            RosterPlayers[KeyOf(n - 1)].o["player"].l[1].l[1]
                                .o["player_key"]
                      /\ p.o["selected_position"].o["position"] \in
                            {JStr("C"), JStr("LW")}

\* A week and a date are both given and the week alone is asked for; the
\* roster of two players is returned in order
C20_Witness ==
    /\ Ran("get_roster")
    /\ WeekArg = JStr("3")
    /\ DateArg = Date(2016, 1, 12)
    /\ sent = <<RosterPath(";week=3")>>
    /\ HasRoster
    /\ RosterPlayers["count"].i = 2
    /\ res.exc = "none"
    /\ res.val.o["players"].l[2].o["player_key"] = JStr("nhl.p.2")
    /\ res.val.o["players"].l[2].o["selected_position"].o["position"] = JStr("LW")


\* A step in which get_settings ends without an exception
SettingsSucceed ==
    /\ op.name = "get_settings"
    /\ res = Pending
    /\ res'.exc = "none"

\* The settings that api_req answered, as fetched
FetchedSettings == answer.val.o["league"].l[2].o["settings"].l[1].o

\* The decoded form of a fetched field: roster_positions is the list of the
\* position objects and stat_categories the list of the category objects,
\* each with its stat_position_types as the list of the type codes
DecodedPosition(item) ==
    Resource("YahooLeagueRosterPosition", item.o["roster_position"].o, NoParent)

DecodedCategory(item) ==
    LET stat == item.o["stat"].o
        types == stat["stat_position_types"].l
    IN  Resource("YahooLeagueStatCategory",
                 [k \in DOMAIN stat |->
                     IF k = "stat_position_types"
                     THEN JList([n \in 1..Len(types) |->
                             types[n].o["stat_position_type"].o["position_type"]])
                     ELSE stat[k]],
                 NoParent)

DecodedField(k) ==
    CASE k = "roster_positions" ->
            JList([n \in 1..Len(FetchedSettings[k].l) |->
                      DecodedPosition(FetchedSettings[k].l[n])])
      [] k = "stat_categories" ->
            JList([n \in 1..Len(FetchedSettings[k].o["stats"].l) |->
                      DecodedCategory(FetchedSettings[k].o["stats"].l[n])])
      [] OTHER -> FetchedSettings[k]

\* C18: when get_settings succeeds, every fetched field is read back from
\* the league in its decoded form, also where the league held a field of
\* that name before, and every other field of the league keeps its value.
C18_SettingsMerged ==
    [][SettingsSucceed =>
          /\ \A k \in DOMAIN FetchedSettings :
                getattr("YahooLeagueResource", league', k)
                    = Returned(DecodedField(k))
          /\ \A k \in DOMAIN league \ DOMAIN FetchedSettings :
                k \in DOMAIN league' /\ league'[k] = league[k]
          /\ DOMAIN league' = DOMAIN league \cup DOMAIN FetchedSettings]_vars

\* get_settings has succeeded: the scoring_type the league was built with
\* ("point") has given way to the fetched one, the league key is kept and
\* two roster positions and a stat category are held in decoded form
C18_Witness ==
    /\ Ran("get_settings")
    /\ res = Returned(JNull)
    /\ league["scoring_type"] = JStr("head")
    /\ league["league_key"] = JStr("nhl.l.1")
    /\ "is_finished" \in DOMAIN league
    /\ Len(league["roster_positions"].l) = 2
    /\ league["roster_positions"].l[2].cls = "YahooLeagueRosterPosition"
    /\ league["stat_categories"].l[1].o["stat_position_types"]
          = JList(<<JStr("P")>>)

\* A step that is not a successful get_settings
OtherStep == ~SettingsSucceed

\* C19: every step other than a successful get_settings (a field read,
\* get_teams, get_team, get_players, find_player, scoreboard, get_roster,
\* get_stats, get_leagues, a get_settings that fails) leaves the attribute
\* maps of the game, the league, the team and the player as they were.
C19_OnlySettingsChangesTheMap ==
    [][OtherStep =>
          /\ league' = league
          /\ team' = team
          /\ player' = player
          /\ game' = game]_vars

\* A get_settings whose answer decodes up to the stat categories and fails
\* there, after another operation, on a league still as it was built
C19_Witness ==
    /\ Ran("get_settings")
    /\ nops = 2
    /\ answer.exc = "none"
    /\ "league" \in DOMAIN answer.val.o
    /\ "roster_positions" \in DOMAIN FetchedSettings
    /\ res.exc = "KeyError"
    /\ sent # <<>>
    /\ league \in LeagueDicts


----------------------------------------------------------------------------
(* Properties of the constructors *)

\* The values a payload's elements hold for a field: in the list of
\* single-entry maps of a list-form element, or in a map-form element
ValuesIn(array, field) ==
    { array[n].o[field] :
        n \in { i \in 1..Len(array) :
                  array[i].t = "obj" /\ field \in DOMAIN array[i].o } }

Carried(api_dict, field) ==
    UNION { IF api_dict.l[n].t = "list"
            THEN ValuesIn(api_dict.l[n].l, field)
            ELSE ValuesIn(<<api_dict.l[n]>>, field) :
            n \in 1..Len(api_dict.l) }

\* The position codes of an array of {position: code} maps, in its order
Codes(array) == JList([n \in 1..Len(array.l) |-> array.l[n].o["position"]])

\* The one map holding every entry of a sequence of maps, a later entry
\* replacing an earlier one of the same key
MergeAll(maps) ==
    [k \in UNION { DOMAIN maps[n] : n \in 1..Len(maps) } |->
        LET holders == { n \in 1..Len(maps) : k \in DOMAIN maps[n] }
        IN  maps[CHOOSE n \in holders : \A m \in holders : m <= n][k]]

\* The entries of an array of maps and empty lists
EntriesOf(array) ==
    MergeAll([n \in 1..Len(array.l) |->
                IF array.l[n].t = "obj" THEN array.l[n].o ELSE EmptyMap])

\* C21: a constructed Player holds eligible_positions as the plain list of
\* the position codes of the payload's array of single-field maps, in the
\* array's order, and selected_position as the one map merged from the
\* payload's array of single-key maps; when the payload holds no
\* eligible_positions or no selected_position, the constructor raises and
\* there is no Player.
C21_PlayerFieldsReduced ==
    Ran("YahooPlayerResource") =>
        LET api_dict == op.args[1]
            eligible == Carried(api_dict, "eligible_positions")
            selected == Carried(api_dict, "selected_position")
        IN  /\ res.exc = "none" =>
                /\ res.val.t = "res"
                /\ res.val.cls = "YahooPlayerResource"
                /\ \E e \in eligible :
                       res.val.o["eligible_positions"] = Codes(e)
                /\ \E s \in selected :
                       res.val.o["selected_position"] = JObj(EntriesOf(s))
            /\ (eligible = {} \/ selected = {}) =>
                    res.exc # "none" /\ res.val = JNull

\* A player built from a list-form element with eligible positions C and
\* LW and a map-form element with the selected position
C21_Witness ==
    /\ Ran("YahooPlayerResource")
    /\ Len(op.args[1].l) = 2
    /\ op.args[1].l[1].t = "list"
    /\ Carried(op.args[1], "eligible_positions")
          = {PositionList(<<"C", "LW">>)}
    /\ res.exc = "none"
    /\ res.val.o["eligible_positions"] = JList(<<JStr("C"), JStr("LW")>>)
    /\ res.val.o["selected_position"] =
          JObj([k \in {"coverage_type", "position"} |->
                  IF k = "position" THEN JStr("C") ELSE JStr("date")])
    /\ res.val.o["name"] = JStr("a")


\* What an element of the payload contributes: the entries of its own
\* array for a list-form element, its own entries for a map-form element
Contribution(e) == IF e.t = "list" THEN EntriesOf(e) ELSE e.o

\* Every element's contribution merged, later elements over earlier ones
EveryElementMerged(api_dict) ==
    MergeAll([n \in 1..Len(api_dict.l) |-> Contribution(api_dict.l[n])])

\* C22: a Player built from a payload mixing list form and map form holds
\* the merge of every element, each list-form element giving the keys of
\* its own array and each map-form element its own keys, whatever its
\* position, a later element replacing what an earlier one gave.
C22_EveryElementMerged ==
    Ran("YahooPlayerResource") =>
        LET merged == EveryElementMerged(op.args[1])
        IN  {"eligible_positions", "selected_position"}
                \subseteq DOMAIN merged =>
              /\ res.exc = "none"
              /\ DOMAIN res.val.o = DOMAIN merged
              /\ \A k \in DOMAIN merged :
                    res.val.o[k] =
                        CASE k = "eligible_positions" -> Codes(merged[k])
                          [] k = "selected_position" ->
                                JObj(EntriesOf(merged[k]))
                          [] OTHER -> merged[k]


\* The collection the n-th sub-collection answer of get_game carries
Collection(n) ==
    Nav(answer[n + 1], <<Key("game"), Idx(1), Key(SubCollections[n])>>)

\* The items of the stat categories, position types and roster positions
\* answers, unwrapped
StatsItems ==
    LET stats == Collection(2).val.o["stats"].l
    IN  [n \in 1..Len(stats) |-> stats[n].o["stat"].o]

TypeItems ==
    LET types == Collection(3).val.l
    IN  [n \in 1..Len(types) |-> types[n].o["position_type"].o]

PositionItems ==
    LET positions == Collection(4).val.l
    IN  [n \in 1..Len(positions) |-> positions[n].o["roster_position"].o]

\* table holds each item under its key field, the last item of a key
\* winning, and nothing else; the other fields of an item are kept
KeyedTable(table, items, field, kept) ==
    /\ table.t = "dict"
    /\ DOMAIN table.d = { items[n][field] : n \in 1..Len(items) }
    /\ \A n \in 1..Len(items) :
          (\A m \in (n + 1)..Len(items) : items[m][field] # items[n][field])
              => /\ table.d[items[n][field]].o[field] = items[n][field]
                 /\ table.d[items[n][field]].o[kept] = items[n][kept]

\* The query strings of one get_game for the game with the given key
GamePaths(key) ==
    <<"game/" \o op.args[1]>>
        \o [n \in 1..Len(SubCollections) |->
               "game/" \o key \o "/" \o SubCollections[n]]

\* C23: get_game hands a Game to its caller only after the four
\* sub-collection requests (game weeks, stat categories, position types,
\* roster positions, in that order) have been issued and decoded: the Game
\* then holds game_weeks as the list of the weeks in the order of the
\* answer, and stat_categories, position_types and roster_positions as
\* tables keyed by stat id, type code and position code; when a request
\* fails or an answer lacks its collection, an exception leaves get_game
\* and there is no Game.
C23_GameAfterFourSubCollections ==
    op.name = "get_game" =>
        /\ Len(sent) < 1 + Len(SubCollections) => res.exc # "none"
        /\ res.exc \notin {"none", "pending"} => res.val = JNull
        /\ (\E n \in 1..Len(answer) : answer[n].exc # "none") =>
              (res.exc # "none" /\ res.val = JNull)
        /\ (/\ \A n \in 1..Len(answer) : answer[n].exc = "none"
            /\ \E n \in 1..Len(SubCollections) : Collection(n).exc # "none") =>
              (res.exc # "none" /\ res.val = JNull)
        /\ res.exc = "none" =>
              /\ res.val.cls = "YahooGameResource"
              /\ sent = GamePaths(res.val.o["game_key"].s)
              /\ res.val.o = GameOf(answer[1]).val.o
              /\ res.val.game_weeks.t = "list"
              /\ LET weeks == _unwrap_array(Collection(1).val).val.l
                 IN  /\ Len(res.val.game_weeks.l) = Len(weeks)
                     /\ \A n \in 1..Len(weeks) :
                          res.val.game_weeks.l[n].o = weeks[n].o["game_week"].o
              /\ KeyedTable(res.val.stat_categories, StatsItems,
                            "stat_id", "name")
              /\ KeyedTable(res.val.position_types, TypeItems,
                            "type", "display_name")
              /\ KeyedTable(res.val.roster_positions, PositionItems,
                            "position", "position_type")

\* A Game handed over with two weeks, two stat categories, two position
\* types and two roster positions
C23_Witness ==
    /\ Ran("get_game")
    /\ res.exc = "none"
    /\ Len(sent) = 5
    /\ Len(res.val.game_weeks.l) = 2
    /\ res.val.game_weeks.l[1].o["week"] = JStr("1")
    /\ DOMAIN res.val.stat_categories.d = {JInt(1), JInt(3)}
    /\ res.val.stat_categories.d[JInt(3)].o["base_stats"]
          = JList(<<JInt(1), JInt(2)>>)
    /\ DOMAIN res.val.position_types.d = {JStr("P"), JStr("G")}
    /\ DOMAIN res.val.roster_positions.d = {JStr("C"), JStr("LW")}


\* The object an operation is called on, and the type its paths start with
Receiver(name) ==
    CASE name \in {"get_teams", "get_team", "get_players", "find_player",
                   "scoreboard", "get_settings"} -> "league"
      [] name = "get_roster" -> "team"
      [] name = "get_stats" -> "player"

OwnKey(object) ==
    CASE object = "league" -> league["league_key"].s
      [] object = "team" -> team["team_key"].s
      [] object = "player" -> player["player_key"].s

\* The sub-resources the operations of a league, a team or a player ask for
SubPaths ==
    {"teams", "players", "scoreboard", "settings", "roster", "stats"}
        \cup {"players;search=" \o quote_plus(name) : name \in PlayerNames}
        \cup {"roster;week=" \o w : w \in {"3", "current"}}
        \cup {"stats;week=" \o w : w \in {"3"}}

\* The resources an outcome holds: the value itself or the items of a
\* list, and the managers of a team or the players of a roster among them
Held(v) ==
    IF v.t = "res" THEN {v}
    ELSE IF v.t = "list"
         THEN { v.l[n] : n \in { i \in 1..Len(v.l) : v.l[i].t = "res" } }
         ELSE {}

HeldWithin(v) ==
    Held(v) \cup UNION { UNION { Held(r.o[k]) :
                                   k \in {"managers", "players"}
                                            \cap DOMAIN r.o } :
                           r \in Held(v) }

\* Where the walk of _api ends for an object whose _parent is `parent`
Root(parent) == IF IsHandle(parent) THEN parent ELSE _api(parent)

\* C24: every request of a League, a Team or a Player, whatever its depth
\* below the handle, is performed by the handle at the root of its parent
\* chain and by no resource in between, with the path
\* '<type>/<own key>/<subpath>' built from the key of the resource the
\* operation was called on; the resources an operation returns resolve to
\* the same handle.
C24_RootHandlePerformsRequests ==
    /\ \A n \in 1..Len(by) : IsHandle(by[n])
    /\ \A name \in {"get_teams", "get_team", "get_players", "find_player",
                    "scoreboard", "get_settings", "get_roster", "get_stats"} :
          Ran(name) =>
              /\ Len(sent) <= 1
              /\ \A n \in 1..Len(sent) :
                    \E sub \in SubPaths :
                        sent[n] = Receiver(name) \o "/"
                                    \o OwnKey(Receiver(name)) \o "/" \o sub
              /\ res.exc = "none" =>
                    \A r \in HeldWithin(res.val) :
                        r.parent # NoParent => IsHandle(Root(r.parent))

\* A roster fetched by the team, three parents below the handle, whose
\* players are two parents further down
C24_Witness ==
    /\ Ran("get_roster")
    /\ sent = <<"team/nhl.l.1.t.1/roster;week=3">>
    /\ by # <<>>
    /\ by[Len(by)] = "handle"
    /\ res.exc = "none"
    /\ res.val.parent = "team"
    /\ \E r \in HeldWithin(res.val) : r.parent = "roster"


\* What an accessor makes of an answer, with nothing kept from an earlier
\* call
Afresh(call, reply) ==
    CASE call.name = "get_teams" -> get_teams(league, reply)
      [] call.name = "get_team" -> get_team(league, reply)
      [] call.name = "get_players" -> get_players(league, reply)
      [] call.name = "scoreboard" -> scoreboard(league, reply)
      [] call.name = "get_roster" ->
            get_roster(team, call.args[1], call.args[2], reply)
      [] call.name = "get_leagues" ->
            get_leagues(game, IF call.args = <<>> THEN JBool(FALSE)
                              ELSE call.args[1], reply)

\* C25: nothing is cached: the k-th of k successive calls of one
\* server-backed accessor on one resource issues a request of its own, so
\* that k requests have been issued when it ends, and its result is
\* decoded from the answer to that request.
C25_EveryCallFetches ==
    op.name \in Accessors =>
        /\ res = Pending => Len(by) = nops - 1
        /\ res # Pending =>
              /\ Len(by) = nops
              /\ Len(sent) = 1
              /\ sent = Afresh(op, answer).sent
              /\ res = Afresh(op, answer).res

\* The second of two calls of get_teams, answered with two teams
C25_Witness ==
    /\ Ran("get_teams")
    /\ nops = 2
    /\ Len(by) = 2
    /\ sent = <<"league/nhl.l.1/teams">>
    /\ res.exc = "none"
    /\ Len(res.val.l) = 2


----------------------------------------------------------------------------
(* Properties of the credentials *)

\* The part of a credential map under the given keys
Under(d, keys) == [k \in keys \cap DOMAIN d |-> d[k]]

ConsumerKeys == {"consumer_key", "consumer_secret"}
RequestTokenKeys == {"oauth_token", "oauth_token_secret", "oauth_verifier"}

\* A step in which the token endpoint is asked for an access token
\* (get_login_token) or for its renewal (refresh_token)
TokenExchangeStep ==
    /\ pc \in {"get_login_token", "refresh_token"}
    /\ Len(log') = Len(log) + 1
    /\ log'[Len(log')].kind \in {"access_token", "refresh"}

\* The access token, its secret and the session handle are those of one
\* grant of the token endpoint
GrantedTogether ==
    \E g \in TokenGrants :
        /\ AccessKeys \subseteq DOMAIN authd'
        /\ authd'["oauth_access_token"] = g.oauth_token
        /\ authd'["oauth_access_token_secret"] = g.oauth_token_secret
        /\ authd'["oauth_session_handle"] = g.oauth_session_handle

\* The exchange was refused: nothing was written to the store
Refused == TokenExchangeStep /\ nwrites' = nwrites

\* C26: the consumer key and secret never change, in memory or in the
\* store; the access token, its secret, the session handle and the store
\* change only in a token exchange that succeeds, which replaces the three
\* together by those of the grant and writes the credentials to the store
\* once; an exchange that is refused, a refresh or an access-token
\* exchange, changes no credential and writes nothing.
C26_CredentialsChangeOnlyByGrant ==
    [][/\ Under(authd', ConsumerKeys) = Under(authd, ConsumerKeys)
       /\ Under(store', ConsumerKeys) = Under(store, ConsumerKeys)
       /\ ConsumerKeys \subseteq DOMAIN authd'
       /\ (\/ Under(authd', AccessKeys) # Under(authd, AccessKeys)
           \/ store' # store
           \/ nwrites' # nwrites) =>
              /\ TokenExchangeStep
              /\ GrantedTogether
              /\ \A k \in DOMAIN authd' \ AccessKeys :
                    k \in DOMAIN authd /\ authd'[k] = authd[k]
              /\ store' = authd'
              /\ nwrites' = nwrites + 1
       /\ Refused => (authd' = authd /\ store' = store)
       /\ authd' # authd =>
              \/ TokenExchangeStep
              \/ /\ pc = "reg_user"
                 /\ pc' = "get_login_token"
                 /\ \A k \in DOMAIN authd' \ RequestTokenKeys :
                       k \in DOMAIN authd /\ authd'[k] = authd[k]
      ]_vars

\* A refresh was granted during a call entered with the credentials at0,
\* as0, sh0: the three are those of one grant and the store holds them
C26_Witness ==
    /\ pc = "retry"
    /\ entry = CredMap("at0", "as0", "sh0")
    /\ nwrites = 1
    /\ authd = CredMap("at2", "as2", "sh2")
    /\ store = authd
    /\ log[Len(log)].kind = "refresh"


\* The access token and the access token secret a signed request was
\* signed with
SignedWith(request) == <<request.auth[3], request.auth[4]>>

\* C27: no signed API request goes out while the access token or its
\* secret is absent or empty: a call whose registration flow ended without
\* an access token fails without having sent a signed request.
C27_NoSignedRequestWithoutToken ==
    /\ \A n \in 1..Len(SignedRequests) :
          /\ SignedWith(SignedRequests[n])[1] # ""
          /\ SignedWith(SignedRequests[n])[2] # ""
    /\ (Finished /\ NoAccessToken(entry) /\ NoAccessToken(authd)) =>
          (pc = "raised" /\ SignedRequests = <<>>)


----------------------------------------------------------------------------
(* Properties of the response format *)

SwapsFormat(name) ==
    name \in {"query_player", "YQuery.find_player", "query_league"}

=============================================================================
